---- MODULE Spec2Model ----
(***************************************************************************)
(* Pipeline orchestration of the image-analysis services:                  *)
(*   Gatekeeper    "Human face api/main.py"  filter_main,                  *)
(*                                           forward_to_age_api            *)
(*   Age Screener  "Age api/main.py"         process_image_gateway,        *)
(*                                           forward_to_next_api,          *)
(*                                           save_autism_image_locally     *)
(*   Region Classifier  "backend-api/hf_model/main.py"  predict,           *)
(*                                           run_inference                 *)
(* One request to one stage is followed from its arrival to the end of the *)
(* handler's finally block; a handler is one step up to the point where it *)
(* awaits the upload, and the keep-alive endpoint of the stage may be      *)
(* called between its steps.  The downstream service, the artifact         *)
(* download and the local disk are the environment: each of their answers  *)
(* is chosen nondeterministically.                                         *)
(***************************************************************************)
EXTENDS Integers, Sequences, FiniteSets, TLC

VARIABLES
    stage,                \* "gate" (Gatekeeper), "age" (Age Screener) or
                          \* "region" (Region Classifier)
    upload,               \* the multipart upload and what the detectors see in it
    pc,                   \* position of the handler
    attempt,              \* loop variable of the forwarding engine (0, 1, 2)
    posts,                \* outcomes of the client.post calls made so far
    sleeps,               \* durations passed to asyncio.sleep so far
    gets,                 \* URLs passed to client.get so far
    received,             \* body of the 200 answer as the target sent it
    autism_response,      \* parsed body the Age Screener is relocating
    forward_result,       \* value returned by the forwarding engine
    detection,            \* the stage's own detection summary
    temp_input_path,      \* name of the saved upload in TEMP_INPUT_DIR
    TEMP_INPUT_DIR,       \* files of the directory the upload is saved to
                          \* (the working directory at the Region Classifier)
    TEMP_OUTPUT_DIR,      \* files of the stage's annotated output directory
    AUTISM_ANNOTATED_DIR, \* files of the Age Screener's relocated artifacts
    uuids,                \* number of uuid4() calls made so far
    resp,                 \* response of the handler
    TEMP_LOG_FILE,        \* rows of the Region Classifier's prediction_log.csv
    requests,             \* concurrent requests: position and paths of each
    fileops,              \* file operations of the concurrent requests
    keep_alives,          \* number of GET /keepalive requests answered so far
    downstream            \* the stages behind the Gatekeeper: the image as they
                          \* see it and the Age Screener's handlers

vars == <<stage, upload, pc, attempt, posts, sleeps, gets, received,
          autism_response, forward_result, detection, temp_input_path,
          TEMP_INPUT_DIR, TEMP_OUTPUT_DIR, AUTISM_ANNOTATED_DIR, uuids, resp,
          TEMP_LOG_FILE, requests, fileops, keep_alives, downstream>>

(***************************************************************************)
(* Bounds of the model.                                                    *)
(***************************************************************************)
MaxKeepAlives == 1  \* GET /keepalive requests a stage answers
MaxFaces == 2       \* faces a detector reports for one image
MaxBoxes == 1       \* boxes the object detector reports for one image
NumRequests == 2    \* requests a stage serves concurrently
MaxTimeouts == 1    \* calls of the Gatekeeper in the pipeline that time out

(***************************************************************************)
(* Strings.                                                                *)
(***************************************************************************)
Digit(d) == SubSeq("0123456789", d + 1, d + 1)

RECURSIVE str(_)
str(n) == IF n < 10 THEN Digit(n) ELSE str(n \div 10) \o Digit(n % 10)

startswith(s, prefix) ==
    /\ Len(s) >= Len(prefix)
    /\ SubSeq(s, 1, Len(prefix)) = prefix

Contains(s, sub) ==
    \E i \in 1..(Len(s) - Len(sub) + 1) : SubSeq(s, i, i + Len(sub) - 1) = sub

\* uuid.uuid4().hex : the n-th identifier generated, different for every n
uuid4_hex(n) == "u" \o str(n)

SeqsUpTo(S, n) == UNION {[1..k -> S] : k \in 0..n}

(***************************************************************************)
(* Files.  A directory is a set of [name, size] records with one record    *)
(* per name; size 0 is an empty file, 1 a non-empty one.                   *)
(***************************************************************************)
exists(dir, name) == \E f \in dir : f.name = name

getsize(dir, name) == (CHOOSE f \in dir : f.name = name).size

write_file(dir, name, size) ==
    {f \in dir : f.name # name} \cup {[name |-> name, size |-> size]}

remove(dir, name) == {f \in dir : f.name # name}

\* cv2.imwrite(path, img) where it does not raise: the file is written and
\* True is returned, or nothing is written and False is returned
imwrite(dir, name, written) ==
    IF written THEN write_file(dir, name, 1) ELSE dir

(***************************************************************************)
(* JSON documents.  A value is [t, v]; a body is an object (a function     *)
(* from keys to values), some other JSON value, or not JSON at all.        *)
(***************************************************************************)
JStr(s) == [t |-> "str", v |-> s]
JNull == [t |-> "null", v |-> ""]

NoObj == [k \in {} |-> JNull]

JObject(o) == [json |-> "object", obj |-> o]
JArray == [json |-> "array", obj |-> NoObj]
NotJson == [json |-> "invalid", obj |-> NoObj]

(***************************************************************************)
(* Program constants.                                                      *)
(***************************************************************************)
ANIMAL_CLASSES == {"dog", "cat", "bird", "horse", "sheep", "cow", "bear",
                   "elephant", "zebra", "giraffe"}

ageList == <<"(0-2)", "(4-6)", "(8-12)", "(15-20)",
             "(25-32)", "(38-43)", "(48-53)", "(60-100)">>

kid_ages == {"(0-2)", "(4-6)", "(8-12)", "(15-20)"}

autism_image_base_url == "https://autism-detection2-667306373563.europe-west1.run.app"

\* range(3) of both forwarding loops
MaxAttempts == 3

(***************************************************************************)
(* Uploads.  The detectors are opaque capabilities: an upload carries what *)
(* they report for its image (confidences in hundredths).                  *)
(***************************************************************************)
ContentTypes == {"image/jpeg", "image/png", "text/plain"}

Contents == {"empty", "garbage", "image"}

BoxChoices == [name : {"dog", "person"}, conf : {70, 90}]

\* a face the face detector of the Gatekeeper reports: the size of its box,
\* and whether predictor(img, face) returns its landmarks or raises
Face(width, height) == [width |-> width, height |-> height, landmarks |-> TRUE]

NoLandmarks(face) == [face EXCEPT !.landmarks = FALSE]

FaceChoices == {Face(4, 4), Face(3, 4),
                Face(7, 5)}

\* shapes shown to the Gatekeeper alone, as the only face of an image
LoneFaceChoices == {Face(4, 0), Face(0, 4),
                    Face(5, 4),
                    Face(4, 5), Face(8, 5)}

\* the brackets on either side of the line between kids and adults
AgeChoices == {"(15-20)", "(25-32)"}

\* every bracket of ageList is also reported alone, as the only face
LoneAgeChoices == {ageList[i] : i \in 1..Len(ageList)}

\* width and height of the decoded image, in pixels
ImageSize == 20

\* raw detections of the face network of the Age Screener
GoodDetection == [confidence |-> 90, x1 |-> 5, y1 |-> 5, x2 |-> 12, y2 |-> 12]

\* a box larger than the frame
WideDetection == [confidence |-> 90, x1 |-> -3, y1 |-> -3, x2 |-> 25, y2 |-> 25]

\* detections the Age Screener shows to no age network: a confidence of 0.7,
\* a box to the right of the frame
SkippedDetections ==
    {[confidence |-> 70, x1 |-> 5, y1 |-> 5, x2 |-> 12, y2 |-> 12],
     [confidence |-> 90, x1 |-> 45, y1 |-> 5, x2 |-> 50, y2 |-> 12]}

\* bounding box of the landmarks of one region
Box(x_min, x_max, y_min, y_max) ==
    [x_min |-> x_min, x_max |-> x_max, y_min |-> y_min, y_max |-> y_max]

\* what the landmark predictor, the region classifiers and the fusion
\* function report for a face
RegionFaceChoices ==
    {[eyes |-> [label |-> "non-autistic", confidence |-> 90, box |-> Box(4, 14, 5, 8)],
      nose |-> [label |-> "non-autistic", confidence |-> 90, box |-> Box(7, 11, 8, 12)],
      lips |-> [label |-> "non-autistic", confidence |-> 90, box |-> Box(6, 12, 13, 16)],
      decision |-> "non-autistic"],
     [eyes |-> [label |-> "autistic", confidence |-> 80, box |-> Box(4, 14, 5, 8)],
      nose |-> [label |-> "non-autistic", confidence |-> 60, box |-> Box(7, 11, 8, 12)],
      lips |-> [label |-> "autistic", confidence |-> 70, box |-> Box(6, 12, 13, 16)],
      decision |-> "autistic"],
     \* the landmarks of the nose lie on one vertical line
     [eyes |-> [label |-> "non-autistic", confidence |-> 90, box |-> Box(4, 14, 5, 8)],
      nose |-> [label |-> "non-autistic", confidence |-> 90, box |-> Box(9, 9, 8, 12)],
      lips |-> [label |-> "non-autistic", confidence |-> 90, box |-> Box(6, 12, 13, 16)],
      decision |-> "non-autistic"],
     \* a face at the left edge: landmarks of the eyes left of the image
     [eyes |-> [label |-> "non-autistic", confidence |-> 90, box |-> Box(-4, 6, 5, 8)],
      nose |-> [label |-> "non-autistic", confidence |-> 90, box |-> Box(1, 4, 8, 12)],
      lips |-> [label |-> "non-autistic", confidence |-> 90, box |-> Box(0, 5, 13, 16)],
      decision |-> "non-autistic"]}

\* raises: "none", or "processing" when the stage's image processing raises
\* an exception of its own (cv2.imwrite at the Gatekeeper, the face network
\* at the Age Screener, the face detector at the Region Classifier), or
\* "animal_detector" / "face_detector" when that detector of the Gatekeeper
\* raises inside contains_animal / is_human_face.
\* written: what cv2.imwrite returns for the annotated image of the stage
\* (False when the file could not be written; no exception is raised)
Upload(ct, c, b, f, a) ==
    [content_type |-> ct, filename |-> "a.jpg", content |-> c,
     boxes |-> b, faces |-> f, ages |-> a, raises |-> "none", written |-> TRUE]

\* the disk does not take the annotated image of the upload
Unwritten(u) == [u EXCEPT !.written = FALSE]

Raising(u) == [u EXCEPT !.raises = "processing"]

\* a detector of the Gatekeeper raises: it reports nothing for the image
DetectorFails(detector, u) == [u EXCEPT !.raises = detector]

\* the same image uploaded as a PNG file
Png(u) == [u EXCEPT !.content_type = "image/png", !.filename = "b.png"]

\* str(e) of the exception raised by the image processing
ProcessingError_str == "OpenCV(4.8.0) error: (-215:Assertion failed)"

\* an upload that is not a readable image is never shown to a detector
Unseen == {Upload(ct, c, <<>>, <<>>, <<>>) : ct \in ContentTypes, c \in Contents}
          \ {Upload("image/jpeg", "image", <<>>, <<>>, <<>>)}

\* the objects vary under one qualifying face and under no face, the faces
\* vary with no object
GateUploads ==
    Unseen \cup {Upload("image/jpeg", "image", b, f, <<>>) :
                    b \in SeqsUpTo(BoxChoices, MaxBoxes),
                    f \in {<<>>, <<Face(4, 4)>>}}
           \cup {Upload("image/jpeg", "image", <<>>, f, <<>>) :
                    f \in SeqsUpTo(FaceChoices, MaxFaces)}
           \cup {Upload("image/jpeg", "image", <<>>, <<f>>, <<>>) :
                    f \in LoneFaceChoices}
           \cup {Raising(Upload("image/jpeg", "image", <<>>,
                                <<Face(4, 4)>>, <<>>))}
           \cup {Png(Upload("image/jpeg", "image", <<>>,
                            <<Face(4, 4)>>, <<>>))}
           \cup {Unwritten(Upload("image/jpeg", "image", <<>>,
                                  <<Face(4, 4)>>, <<>>))}
           \cup {Upload("image/jpeg", "image", <<>>, f, <<>>) :
                    f \in {<<NoLandmarks(Face(4, 4))>>,
                           <<NoLandmarks(Face(4, 4)), Face(3, 4)>>,
                           <<NoLandmarks(Face(4, 4)), Face(5, 4)>>}}
           \cup {DetectorFails("animal_detector",
                               Upload("image/jpeg", "image", <<>>, <<f>>, <<>>)) :
                    f \in {Face(4, 4), Face(7, 5)}}
           \cup {DetectorFails("face_detector",
                               Upload("image/jpeg", "image", b, <<>>, <<>>)) :
                    b \in {<<>>, <<[name |-> "person", conf |-> 90]>>}}

\* faces: the raw detections; ages: the bracket the age network reports for
\* each face crop it is shown, in turn
AgeUploads ==
    Unseen \cup {Upload("image/jpeg", "image", <<>>,
                        [i \in 1..Len(a) |-> GoodDetection], a) :
                    a \in SeqsUpTo(AgeChoices, MaxFaces)}
           \cup {Upload("image/jpeg", "image", <<>>, <<GoodDetection>>, <<a>>) :
                    a \in LoneAgeChoices}
           \cup {Upload("image/jpeg", "image", <<>>, <<d>>, <<>>) :
                    d \in SkippedDetections}
           \cup {Upload("image/jpeg", "image", <<>>, <<d, GoodDetection>>, <<a>>) :
                    d \in SkippedDetections, a \in {"(4-6)", "(38-43)"}}
           \cup {Upload("image/jpeg", "image", <<>>, <<WideDetection>>, <<"(8-12)">>)}
           \cup {Png(Upload("image/jpeg", "image", <<>>, <<GoodDetection>>, <<"(4-6)">>))}
           \cup {Raising(Upload("image/jpeg", "image", <<>>, <<>>, <<>>))}
           \cup {Unwritten(Upload("image/jpeg", "image", <<>>,
                                  [i \in 1..Len(a) |-> GoodDetection], a)) :
                    a \in {<<>>, <<"(4-6)">>, <<"(38-43)">>}}

\* predict reads no content type: every upload reaches run_inference
RegionUploads ==
    Unseen \cup {Upload(ct, "image", <<>>, f, <<>>) :
                    ct \in ContentTypes,
                    f \in SeqsUpTo(RegionFaceChoices, MaxFaces)}
           \cup {Raising(Upload("image/jpeg", "image", <<>>, <<>>, <<>>))}
           \cup {Unwritten(Upload("image/jpeg", "image", <<>>, <<f>>, <<>>)) :
                    f \in RegionFaceChoices}

(***************************************************************************)
(* Responses.                                                              *)
(***************************************************************************)
JSONResponse(status_code, content) ==
    [status_code |-> status_code, content |-> content]

\* FastAPI renders a raised HTTPException as {"detail": detail}
HTTPException(status_code, detail) ==
    [status_code |-> status_code, content |-> [detail |-> detail]]

\* str(e) of a starlette HTTPException
HTTPException_str(status_code, detail) == str(status_code) \o ": " \o detail

\* the answer of the server to an exception no handler caught: a plain
\* text body, the exception is not shown
InternalServerError ==
    [status_code |-> 500, content |-> [text |-> "Internal Server Error"]]

NoResponse == [status_code |-> 0, content |-> NoObj]

NoResult == [status |-> "", data |-> NotJson, error |-> ""]

(***************************************************************************)
(* Gatekeeper gates.                                                       *)
(***************************************************************************)
\* variant: the confidence threshold is 0.9
contains_animal_above_90(boxes) ==
    \E i \in 1..Len(boxes) :
        /\ boxes[i].name \in ANIMAL_CLASSES
        /\ boxes[i].conf > 90

\* name in ANIMAL_CLASSES and box.conf > 0.7
contains_animal(boxes) ==
    \E i \in 1..Len(boxes) :
        /\ boxes[i].name \in ANIMAL_CLASSES
        /\ boxes[i].conf > 70

\* variant: the bounds of the aspect ratio are inclusive
is_human_face_inclusive(faces) ==
    \E i \in 1..Len(faces) :
        /\ faces[i].landmarks
        /\ faces[i].width # 0
        /\ faces[i].height # 0
        /\ 75 * faces[i].height <= 100 * faces[i].width
        /\ 10 * faces[i].width <= 14 * faces[i].height

\* the loop over the faces returns True at the first face for which
\* predictor(img, face) returns, width and height are not zero and
\* 0.75 < width / float(height) < 1.4; a face for which the predictor raises
\* is passed over ("except Exception: continue")
is_human_face(faces) ==
    \E i \in 1..Len(faces) :
        /\ faces[i].landmarks
        /\ faces[i].width # 0
        /\ faces[i].height # 0
        /\ 75 * faces[i].height < 100 * faces[i].width
        /\ 10 * faces[i].width < 14 * faces[i].height

\* face_count returned by annotate_faces
annotate_faces(faces) == Len(faces)

\* variant: a failure of the animal detector rejects the image
animal_filter_failing_closed(u) ==
    u.raises = "animal_detector" \/ contains_animal(u.boxes)

\* contains_animal(img) with its except clause: a failure of the detector
\* returns False
animal_filter(u) ==
    IF u.raises = "animal_detector" THEN FALSE ELSE contains_animal(u.boxes)

\* is_human_face(img) with its except clause: a failure of the detector
\* returns False
human_face_filter(u) ==
    IF u.raises = "face_detector" THEN FALSE ELSE is_human_face(u.faces)

(***************************************************************************)
(* Age Screener gate.                                                      *)
(***************************************************************************)
Min2(a, b) == IF a < b THEN a ELSE b

Max2(a, b) == IF a > b THEN a ELSE b

\* number of elements of a[lo:hi] for an axis of n elements: a negative index
\* counts from the end, an index beyond the end is cut
slice_len(lo, hi, n) ==
    LET index(i) == IF i < 0 THEN Max2(i + n, 0) ELSE Min2(i, n)
    IN Max2(index(hi) - index(lo), 0)

padding == 20

\* face.size of frame[max(0, y1 - padding):min(y2 + padding, frameHeight - 1),
\*                    max(0, x1 - padding):min(x2 + padding, frameWidth - 1)]
face_size(d, frameWidth, frameHeight) ==
    slice_len(Max2(0, d.y1 - padding), Min2(d.y2 + padding, frameHeight - 1),
              frameHeight)
    * slice_len(Max2(0, d.x1 - padding), Min2(d.x2 + padding, frameWidth - 1),
                frameWidth)

\* the ages of the annotations: one for each detection with a confidence
\* above 0.7 and a face crop that is not empty
RECURSIVE highlightFace_and_annotate(_, _)
highlightFace_and_annotate(detections, ages) ==
    IF detections = <<>> THEN <<>>
    ELSE IF /\ Head(detections).confidence > 70
            /\ face_size(Head(detections), ImageSize, ImageSize) # 0
    THEN <<Head(ages)>> \o highlightFace_and_annotate(Tail(detections), Tail(ages))
    ELSE highlightFace_and_annotate(Tail(detections), ages)

\* variant: the (25-32) bracket counts as a minor
is_kid_under_33(age) == age \in kid_ages \cup {"(25-32)"}

is_kid(age) == age \in kid_ages

RECURSIVE count_kids(_)
count_kids(ages) ==
    IF ages = <<>> THEN 0
    ELSE (IF is_kid(Head(ages)) THEN 1 ELSE 0) + count_kids(Tail(ages))

\* variant: an empty list of annotations is not told apart
process_image_for_age_check_faces_assumed(ages, annotated_filename) ==
    LET kids_count == count_kids(ages)
    IN [has_faces |-> TRUE, contains_kids |-> kids_count > 0,
        annotations |-> ages,
        kids_count |-> kids_count,
        adults_count |-> Len(ages) - kids_count,
        annotated_image_url |-> "/annotated_age/" \o annotated_filename]

\* variant: only the first annotation is looked at
process_image_for_age_check_first_face(ages, annotated_filename) ==
    IF Len(ages) = 0
    THEN [has_faces |-> FALSE, contains_kids |-> FALSE, annotations |-> <<>>,
          kids_count |-> 0, adults_count |-> 0,
          annotated_image_url |-> "/annotated_age/" \o annotated_filename]
    ELSE LET kids_count == count_kids(SubSeq(ages, 1, 1))
         IN [has_faces |-> TRUE, contains_kids |-> kids_count > 0,
             annotations |-> ages,
             kids_count |-> kids_count,
             adults_count |-> Len(ages) - kids_count,
             annotated_image_url |-> "/annotated_age/" \o annotated_filename]

\* variant: every annotated face is counted as an adult
process_image_for_age_check_all_adults(ages, annotated_filename) ==
    IF Len(ages) = 0
    THEN [has_faces |-> FALSE, contains_kids |-> FALSE, annotations |-> <<>>,
          kids_count |-> 0, adults_count |-> 0,
          annotated_image_url |-> "/annotated_age/" \o annotated_filename]
    ELSE LET kids_count == count_kids(ages)
         IN [has_faces |-> TRUE, contains_kids |-> kids_count > 0,
             annotations |-> ages,
             kids_count |-> kids_count,
             adults_count |-> Len(ages),
             annotated_image_url |-> "/annotated_age/" \o annotated_filename]

\* the dict returned by process_image_for_age_check for a readable image
process_image_for_age_check(ages, annotated_filename) ==
    IF Len(ages) = 0
    THEN [has_faces |-> FALSE, contains_kids |-> FALSE, annotations |-> <<>>,
          kids_count |-> 0, adults_count |-> 0,
          annotated_image_url |-> "/annotated_age/" \o annotated_filename]
    ELSE LET kids_count == count_kids(ages)
         IN [has_faces |-> TRUE, contains_kids |-> kids_count > 0,
             annotations |-> ages,
             kids_count |-> kids_count,
             adults_count |-> Len(ages) - kids_count,
             annotated_image_url |-> "/annotated_age/" \o annotated_filename]

(***************************************************************************)
(* Initial state: a request has arrived at one of the three stages.  The   *)
(* artifact directory of the Age Screener keeps a file of an earlier       *)
(* request.                                                                *)
(***************************************************************************)
\* Spec and SpecConcurrent follow one stage: the stages behind it are its
\* environment
NoDownstream == [ages |-> <<>>, faces |-> <<>>, region |-> "", handlers |-> <<>>]

OldArtifact == [name |-> "autism_annotated_" \o uuid4_hex(0) \o ".jpg", size |-> 1]

Init ==
    /\ stage \in {"gate", "age", "region"}
    /\ upload \in (CASE stage = "gate" -> GateUploads
                     [] stage = "age" -> AgeUploads
                     [] stage = "region" -> RegionUploads)
    /\ pc = "received"
    /\ attempt = 0
    /\ posts = <<>>
    /\ sleeps = <<>>
    /\ gets = <<>>
    /\ received = NotJson
    /\ autism_response = NoObj
    /\ forward_result = NoResult
    /\ detection = NoObj
    /\ temp_input_path = ""
    /\ TEMP_INPUT_DIR = {}
    /\ TEMP_OUTPUT_DIR = {}
    /\ AUTISM_ANNOTATED_DIR = (IF stage = "age" THEN {OldArtifact} ELSE {})
    /\ uuids = 0
    /\ resp = NoResponse
    /\ TEMP_LOG_FILE = <<>>
    /\ requests = <<>>
    /\ fileops = {}
    /\ downstream = NoDownstream
    /\ keep_alives = 0

(***************************************************************************)
(* Names of the files of a request.                                        *)
(***************************************************************************)
\* variant: the upload is saved under the name the client gave
temp_input_name_of_client(n, filename) == filename

\* f"{uuid.uuid4().hex}_{file.filename}"
temp_input_name(n, filename) == uuid4_hex(n) \o "_" \o filename

\* f"temp_{uuid.uuid4()}.jpg"
temp_name(n) == "temp_" \o uuid4_hex(n) \o ".jpg"

\* f"<prefix>annotated_{uuid.uuid4().hex}.jpg" with prefix face_, age_,
\* autism_ or none
annotated_name(prefix, n) == prefix \o "annotated_" \o uuid4_hex(n) \o ".jpg"

(***************************************************************************)
(* filter_main, from the arrival of the request to the call of the         *)
(* forwarding engine.                                                      *)
(***************************************************************************)
filter_main ==
    /\ UNCHANGED <<keep_alives, TEMP_LOG_FILE, requests, fileops, downstream>>
    /\ stage = "gate"
    /\ pc = "received"
    /\ UNCHANGED <<stage, upload, attempt, posts, sleeps, gets, received,
                   autism_response, forward_result, detection, TEMP_INPUT_DIR,
                   TEMP_OUTPUT_DIR, AUTISM_ANNOTATED_DIR>>
    /\ IF ~startswith(upload.content_type, "image/")
       THEN \* raised before the try block: no temp path, no finally
            /\ resp' = HTTPException(400, "File must be an image")
            /\ pc' = "done"
            /\ UNCHANGED <<temp_input_path, uuids>>
       ELSE \* the handler gives way at "content = await file.read()"
            /\ temp_input_path' = temp_input_name(uuids + 1, upload.filename)
            /\ uuids' = uuids + 1
            /\ pc' = "read"
            /\ UNCHANGED resp

\* filter_main from the return of "await file.read()" to the call of the
\* forwarding engine or to the finally block
filter_main_resumed ==
    /\ UNCHANGED <<keep_alives, TEMP_LOG_FILE, requests, fileops, downstream>>
    /\ stage = "gate"
    /\ pc = "read"
    /\ UNCHANGED <<stage, upload, attempt, posts, sleeps, gets, received,
                   autism_response, forward_result, temp_input_path,
                   AUTISM_ANNOTATED_DIR>>
    /\ LET path == temp_input_path
           annotated_filename ==
               "face_annotated_" \o uuid4_hex(uuids + 1) \o ".jpg"
       IN IF upload.content = "empty"
          THEN /\ resp' = HTTPException(400, "Uploaded file is empty.")
               /\ pc' = "finally"
               /\ UNCHANGED <<detection, TEMP_INPUT_DIR, TEMP_OUTPUT_DIR, uuids>>
          ELSE /\ TEMP_INPUT_DIR' = write_file(TEMP_INPUT_DIR, path, 1)
               /\ IF upload.content = "garbage"
                  THEN /\ resp' = HTTPException(400,
                             "Uploaded file could not be read as a valid image.")
                       /\ pc' = "finally"
                       /\ UNCHANGED <<detection, TEMP_OUTPUT_DIR, uuids>>
                  ELSE IF animal_filter(upload)
                  THEN /\ resp' = JSONResponse(400,
                             [valid |-> FALSE, status |-> "animal_detected",
                              reason |-> "Animal face detected. Only real human images are allowed."])
                       /\ pc' = "finally"
                       /\ UNCHANGED <<detection, TEMP_OUTPUT_DIR, uuids>>
                  ELSE IF ~human_face_filter(upload)
                  THEN /\ resp' = JSONResponse(400,
                             [valid |-> FALSE, status |-> "no_human_face",
                              reason |-> "No valid human face detected."])
                       /\ pc' = "finally"
                       /\ UNCHANGED <<detection, TEMP_OUTPUT_DIR, uuids>>
                  ELSE IF upload.raises = "processing"
                  THEN \* cv2.imwrite raises: there is no except clause,
                       \* the finally block runs and the server answers
                       /\ resp' = InternalServerError
                       /\ pc' = "finally"
                       /\ uuids' = uuids + 1
                       /\ UNCHANGED <<detection, TEMP_OUTPUT_DIR>>
                  ELSE \* the result of cv2.imwrite is not read
                       /\ TEMP_OUTPUT_DIR' =
                             imwrite(TEMP_OUTPUT_DIR, annotated_filename,
                                     upload.written)
                       /\ detection' =
                             [face_count |-> annotate_faces(upload.faces),
                              annotated_filename |-> annotated_filename]
                       /\ uuids' = uuids + 1
                       /\ pc' = "forward"
                       /\ UNCHANGED resp

\* keep_alive (GET /keepalive) of the Gatekeeper and of the Age Screener,
\* answered at any point between the steps of the handlers: the answer
\* carries a uuid4 as its timestamp; nothing else changes
keep_alive ==
    /\ stage \in {"gate", "age"}
    /\ keep_alives < MaxKeepAlives
    /\ keep_alives' = keep_alives + 1
    /\ uuids' = uuids + 1
    /\ UNCHANGED <<stage, upload, pc, attempt, posts, sleeps, gets, received,
                   autism_response, forward_result, detection, temp_input_path,
                   TEMP_INPUT_DIR, TEMP_OUTPUT_DIR, AUTISM_ANNOTATED_DIR, resp,
                   TEMP_LOG_FILE, requests, fileops, downstream>>

(***************************************************************************)
(* process_image_gateway, from the arrival of the request to the call of   *)
(* the forwarding engine.                                                  *)
(***************************************************************************)
base_response(age_check_result) ==
    [valid |-> TRUE,
     status |-> "face_validated_and_processed",
     message |-> "Human face validated and processed by age API.",
     face_count |-> 1,
     annotated_image_url |-> age_check_result.annotated_image_url]

\* the answer for an image in which no face was annotated
no_faces_detected_response(age_check_result) ==
    JSONResponse(200,
        [face_count |-> 0,
         age_analysis_data |->
             [status |-> "no_faces_detected",
              message |-> "No faces detected",
              age_check_summary |-> age_check_result]]
        @@ base_response(age_check_result))

\* the answer for an image with no face in a minor bracket
adult_invalid_response(age_check_result) ==
    JSONResponse(200,
        [age_analysis_data |->
             [status |-> "adult_invalid",
              message |-> "Adult detected - Invalid for analysis",
              age_check_summary |-> age_check_result]]
        @@ base_response(age_check_result))

process_image_gateway ==
    /\ UNCHANGED <<keep_alives, TEMP_LOG_FILE, requests, fileops, downstream>>
    /\ stage = "age"
    /\ pc = "received"
    /\ UNCHANGED <<stage, upload, attempt, posts, sleeps, gets, received,
                   autism_response, forward_result, detection, TEMP_OUTPUT_DIR,
                   AUTISM_ANNOTATED_DIR>>
    /\ IF ~startswith(upload.content_type, "image/")
       THEN /\ resp' = HTTPException(400, "File must be an image")
            /\ pc' = "done"
            /\ UNCHANGED <<temp_input_path, TEMP_INPUT_DIR, uuids>>
       ELSE \* open(temp_input_path, "wb") creates the file, then the handler
            \* gives way at "content = await file.read()"
            LET path == temp_input_name(uuids + 1, upload.filename)
            IN /\ temp_input_path' = path
               /\ TEMP_INPUT_DIR' = write_file(TEMP_INPUT_DIR, path, 0)
               /\ uuids' = uuids + 1
               /\ pc' = "read"
               /\ UNCHANGED resp

\* process_image_gateway from the return of "await file.read()" to the call
\* of the forwarding engine or to the finally block
process_image_gateway_resumed ==
    /\ UNCHANGED <<keep_alives, TEMP_LOG_FILE, requests, fileops, downstream>>
    /\ stage = "age"
    /\ pc = "read"
    /\ UNCHANGED <<stage, upload, attempt, posts, sleeps, gets, received,
                   autism_response, forward_result, temp_input_path,
                   AUTISM_ANNOTATED_DIR>>
    /\ LET annotated_filename ==
               "age_annotated_" \o uuid4_hex(uuids + 1) \o ".jpg"
           age_check_result ==
               process_image_for_age_check(
                   highlightFace_and_annotate(upload.faces, upload.ages),
                   annotated_filename)
       IN /\ TEMP_INPUT_DIR' =
                write_file(TEMP_INPUT_DIR, temp_input_path,
                           IF upload.content = "empty" THEN 0 ELSE 1)
          /\ IF upload.content # "image"
             THEN \* cv2.imread returns None: the HTTPException(400) raised by
                  \* process_image_for_age_check is caught by "except Exception"
                  /\ resp' = HTTPException(500, "Processing error: " \o
                        HTTPException_str(400, "Could not read image file."))
                  /\ pc' = "finally"
                  /\ UNCHANGED <<detection, TEMP_OUTPUT_DIR, uuids>>
             ELSE IF upload.raises = "processing"
             THEN \* highlightFace_and_annotate raises
                  /\ resp' = HTTPException(500, "Processing error: " \o
                        ProcessingError_str)
                  /\ pc' = "finally"
                  /\ UNCHANGED <<detection, TEMP_OUTPUT_DIR, uuids>>
             ELSE \* the result of cv2.imwrite is not read
                  /\ TEMP_OUTPUT_DIR' =
                        imwrite(TEMP_OUTPUT_DIR, annotated_filename,
                                upload.written)
                  /\ detection' = age_check_result
                  /\ uuids' = uuids + 1
                  /\ IF ~age_check_result.has_faces
                     THEN /\ resp' = no_faces_detected_response(age_check_result)
                          /\ pc' = "finally"
                     ELSE IF age_check_result.contains_kids
                     THEN /\ pc' = "forward"
                          /\ UNCHANGED resp
                     ELSE /\ resp' = adult_invalid_response(age_check_result)
                          /\ pc' = "finally"

(***************************************************************************)
(* Answers of the environment to one client.post call.                     *)
(*   kind "response"          an HTTP answer with status_code and body     *)
(*   kind "TimeoutException"  httpx.TimeoutException                       *)
(*   kind "RequestError"      any other httpx.RequestError                 *)
(*   kind "Exception"         any exception that is not an httpx one       *)
(* message is str(e) of the exception.                                     *)
(***************************************************************************)
Answer(status_code, body) ==
    [kind |-> "response", status_code |-> status_code, body |-> body, message |-> ""]

Raised(kind, message) ==
    [kind |-> kind, status_code |-> 0, body |-> NotJson, message |-> message]

OtherStatuses == {404, 503}

Failures ==
    {Raised("TimeoutException", "The read operation timed out"),
     Raised("RequestError", "All connection attempts failed"),
     Raised("Exception", "unexpected failure")}

\* bodies the Age Screener may send to the Gatekeeper
AgeBodies ==
    {JObject("status" :> JStr("face_validated_and_processed")
             @@ "annotated_image_url" :> JStr("/annotated_age/age_annotated_r1.jpg")),
     JObject("status" :> JStr("face_validated_and_processed")),
     JArray,
     NotJson}

\* bodies the Region Classifier may send to the Age Screener
AutismBodies ==
    {JObject("status" :> JStr("success")
             @@ "annotated_image_path" :> JStr("/annotated/annotated_r1.jpg")),
     JObject("status" :> JStr("success")
             @@ "annotated_image_path" :> JStr("annotated/annotated_r1.jpg")),
     JObject("status" :> JStr("success") @@ "annotated_image_path" :> JNull),
     JObject("status" :> JStr("success")),
     JArray,
     NotJson}

PostOutcomes(bodies) ==
    {Answer(200, b) : b \in bodies}
    \cup {Answer(c, NotJson) : c \in {500} \cup OtherStatuses}
    \cup Failures

\* str(e) of the exceptions raised while a 200 answer is handled
JSONDecodeError_str == "Expecting value: line 1 column 1 (char 0)"
AttributeError_keys_str == "'list' object has no attribute 'keys'"

(***************************************************************************)
(* One iteration of a forwarding loop yields one of                        *)
(*   return : the engine returns result                                    *)
(*   sleep  : the engine calls asyncio.sleep(seconds), then continues      *)
(*   get    : (Age Screener) the engine downloads the artifact from url    *)
(***************************************************************************)
Return(result) == [next |-> "return", result |-> result, seconds |-> 0, url |-> ""]

Sleep(seconds) == [next |-> "sleep", result |-> NoResult, seconds |-> seconds, url |-> ""]

Get(url) == [next |-> "get", result |-> NoResult, seconds |-> 0, url |-> url]

success(data) == [status |-> "success", data |-> data, error |-> ""]

forward_failed(error) == [status |-> "forward_failed", data |-> NotJson, error |-> error]

\* variant: every attempt is given the first attempt's timeout
Timeout_flat(att) ==
    [timeout |-> 60 + (0 * att), connect |-> 30, read |-> 60 + (0 * att)]

\* timeout_duration = 60.0 + (attempt * 30.0), connect=30.0, read=timeout_duration
Timeout(att) ==
    [timeout |-> 60 + (att * 30), connect |-> 30, read |-> 60 + (att * 30)]

(***************************************************************************)
(* Gatekeeper: forward_to_age_api, one iteration for loop variable att and *)
(* answer o of client.post.                                                *)
(***************************************************************************)
\* variant: the backoff after a 500 is computed from the zero-based loop variable
age_api_backoff_500_zero_based(att) == 15 * att

age_api_backoff_500(att) == 15 * (att + 1)

age_api_backoff_timeout == 20

age_api_backoff_error == 10

age_api_error_500(att) ==
    "Age API returned 500 error after " \o str(att + 1) \o " attempts"

age_api_error_status(status_code) ==
    "Age API returned status " \o str(status_code)

\* variant: the reason reports the zero-based loop variable
age_api_error_timeout_zero_based(att) ==
    "Age API timed out after " \o str(att) \o " attempts"

age_api_error_timeout(att) ==
    "Age API timed out after " \o str(att + 1) \o " attempts"

age_api_error_network(message) == "Network error: " \o message

age_api_error_unexpected(message) == "Unexpected error: " \o message

age_api_unexpected(att, message) ==
    IF att < 2
    THEN Sleep(age_api_backoff_error)
    ELSE Return(forward_failed(age_api_error_unexpected(message)))

forward_to_age_api(att, o) ==
    IF o.kind = "response"
    THEN IF o.status_code = 200
         THEN IF o.body.json = "invalid"
              THEN \* response.json() raises: "except Exception"
                   age_api_unexpected(att, JSONDecodeError_str)
              ELSE Return(success(o.body))
         ELSE IF o.status_code = 500
         THEN IF att < 2
              THEN Sleep(age_api_backoff_500(att))
              ELSE Return(forward_failed(age_api_error_500(att)))
         ELSE Return(forward_failed(age_api_error_status(o.status_code)))
    ELSE IF o.kind = "TimeoutException"
    THEN IF att < 2
         THEN Sleep(age_api_backoff_timeout)
         ELSE Return(forward_failed(age_api_error_timeout(att)))
    ELSE IF o.kind = "RequestError"
    THEN IF att < 2
         THEN Sleep(age_api_backoff_error)
         ELSE Return(forward_failed(age_api_error_network(o.message)))
    ELSE age_api_unexpected(att, o.message)

(***************************************************************************)
(* Age Screener: forward_to_next_api, one iteration up to the download of  *)
(* the artifact.                                                           *)
(***************************************************************************)
\* variant: the backoff after a 500 does not grow with the attempt
autism_api_backoff_500_flat(att) == 15

autism_api_backoff_500(att) == 15 * (att + 1)

autism_api_backoff_timeout == 20

autism_api_backoff_error == 10

autism_api_error_500(att) ==
    "Autism API 500 error after " \o str(att + 1) \o " attempts"

\* variant: the reason does not carry the status code
autism_api_error_status_anonymous(status_code) ==
    "Autism API returned an error status"

autism_api_error_status(status_code) ==
    "Autism API returned status " \o str(status_code)

autism_api_error_timeout(att) ==
    "Autism API timed out after " \o str(att + 1) \o " attempts"

autism_api_error_unexpected(message) == "Unexpected error: " \o message

\* variant: the catch-all handler waits after the last attempt too
autism_api_unexpected_always_waits(att, message) ==
    Sleep(autism_api_backoff_error + (0 * att))

autism_api_unexpected(att, message) ==
    IF att < 2
    THEN Sleep(autism_api_backoff_error)
    ELSE Return(forward_failed(autism_api_error_unexpected(message)))

\* the URL the artifact is downloaded from
image_url(original_path) ==
    IF startswith(original_path, "/")
    THEN autism_image_base_url \o original_path
    ELSE autism_image_base_url \o "/" \o original_path

forward_to_next_api(att, o) ==
    IF o.kind = "response"
    THEN IF o.status_code = 200
         THEN IF o.body.json = "invalid"
              THEN \* response.json() raises
                   autism_api_unexpected(att, JSONDecodeError_str)
              ELSE IF o.body.json # "object"
              THEN \* autism_response.keys() raises
                   autism_api_unexpected(att, AttributeError_keys_str)
              ELSE IF "annotated_image_path" \in DOMAIN o.body.obj
              THEN IF o.body.obj["annotated_image_path"].t # "str"
                   THEN \* original_path.startswith raises inside the inner try
                        Return(success(o.body))
                   ELSE Get(image_url(o.body.obj["annotated_image_path"].v))
              ELSE Return(success(o.body))
         ELSE IF o.status_code = 500
         THEN IF att < 2
              THEN Sleep(autism_api_backoff_500(att))
              ELSE Return(forward_failed(autism_api_error_500(att)))
         ELSE Return(forward_failed(autism_api_error_status(o.status_code)))
    ELSE IF o.kind = "TimeoutException"
    THEN IF att < 2
         THEN Sleep(autism_api_backoff_timeout)
         ELSE Return(forward_failed(autism_api_error_timeout(att)))
    ELSE autism_api_unexpected(att, o.message)

(***************************************************************************)
(* One client.post call of either engine and what the loop does with its   *)
(* answer.                                                                 *)
(***************************************************************************)
\* variant: the file is sent without a filename and a content type of its
\* own, and httpx labels it application/octet-stream
files_untyped(image_path) ==
    [field |-> "file", filename |-> "upload", path |-> image_path,
     content_type |-> "application/octet-stream"]

\* files = {"file": ("image.jpg", f, "image/jpeg")}, f the file at image_path
files(image_path) ==
    [field |-> "file", filename |-> "image.jpg", path |-> image_path,
     content_type |-> "image/jpeg"]

\* waited: the asyncio.sleep calls made before this call of client.post
Posted(att, o, waited) ==
    [attempt |-> att + 1, timeout |-> Timeout(att), files |-> files(temp_input_path),
     outcome |-> o, waited |-> waited]

forward_step(step, o) ==
    /\ posts' = Append(posts, Posted(attempt, o, sleeps))
    /\ received' = (IF o.kind = "response" /\ o.status_code = 200
                    THEN o.body ELSE received)
    /\ IF step.next = "return"
       THEN /\ forward_result' = step.result
            /\ pc' = "respond"
            /\ UNCHANGED <<sleeps, autism_response>>
       ELSE IF step.next = "sleep"
       THEN /\ sleeps' = Append(sleeps, step.seconds)
            /\ pc' = "sleep"
            /\ UNCHANGED <<forward_result, autism_response>>
       ELSE /\ autism_response' = o.body.obj
            /\ pc' = "get"
            /\ UNCHANGED <<forward_result, sleeps>>
    /\ UNCHANGED <<stage, upload, attempt, gets, detection, temp_input_path,
                   TEMP_INPUT_DIR, TEMP_OUTPUT_DIR, AUTISM_ANNOTATED_DIR,
                   uuids, resp>>

forward_to_age_api_attempt ==
    /\ UNCHANGED <<keep_alives, TEMP_LOG_FILE, requests, fileops, downstream>>
    /\ stage = "gate"
    /\ pc = "forward"
    /\ attempt < MaxAttempts
    /\ \E o \in PostOutcomes(AgeBodies) :
           forward_step(forward_to_age_api(attempt, o), o)

forward_to_next_api_attempt ==
    /\ UNCHANGED <<keep_alives, TEMP_LOG_FILE, requests, fileops, downstream>>
    /\ stage = "age"
    /\ pc = "forward"
    /\ attempt < MaxAttempts
    /\ \E o \in PostOutcomes(AutismBodies) :
           forward_step(forward_to_next_api(attempt, o), o)

\* variant: the saved upload is removed before the wait
asyncio_sleep_without_upload ==
    /\ UNCHANGED <<keep_alives, TEMP_LOG_FILE, requests, fileops, downstream>>
    /\ pc = "sleep"
    /\ attempt' = attempt + 1
    /\ pc' = "forward"
    /\ TEMP_INPUT_DIR' = remove(TEMP_INPUT_DIR, temp_input_path)
    /\ UNCHANGED <<stage, upload, posts, sleeps, gets, received, autism_response,
                   forward_result, detection, temp_input_path,
                   TEMP_OUTPUT_DIR, AUTISM_ANNOTATED_DIR, uuids, resp>>

\* variant: the loop variable is not advanced after a wait
asyncio_sleep_same_attempt ==
    /\ UNCHANGED <<keep_alives, TEMP_LOG_FILE, requests, fileops, downstream>>
    /\ pc = "sleep"
    /\ attempt' = attempt
    /\ pc' = "forward"
    /\ UNCHANGED <<stage, upload, posts, sleeps, gets, received, autism_response,
                   forward_result, detection, temp_input_path, TEMP_INPUT_DIR,
                   TEMP_OUTPUT_DIR, AUTISM_ANNOTATED_DIR, uuids, resp>>

\* asyncio.sleep returns and the loop continues with the next attempt
asyncio_sleep ==
    /\ UNCHANGED <<keep_alives, TEMP_LOG_FILE, requests, fileops, downstream>>
    /\ pc = "sleep"
    /\ attempt' = attempt + 1
    /\ pc' = "forward"
    /\ UNCHANGED <<stage, upload, posts, sleeps, gets, received, autism_response,
                   forward_result, detection, temp_input_path, TEMP_INPUT_DIR,
                   TEMP_OUTPUT_DIR, AUTISM_ANNOTATED_DIR, uuids, resp>>

(***************************************************************************)
(* Age Screener: download of the artifact and save_autism_image_locally.   *)
(* content is the body of the GET answer ("" is an empty body).  The disk  *)
(* answers a write with "ok", with an error before the file is created     *)
(* ("open_fails") or with an error after it was created ("write_fails").   *)
(***************************************************************************)
GetAnswer(status_code, content) ==
    [kind |-> "response", status_code |-> status_code, content |-> content,
     message |-> ""]

GetRaised(kind, message) ==
    [kind |-> kind, status_code |-> 0, content |-> "", message |-> message]

GetOutcomes ==
    {GetAnswer(200, "jpeg bytes"), GetAnswer(200, ""), GetAnswer(404, "Not Found"),
     GetRaised("TimeoutException", "The read operation timed out"),
     GetRaised("RequestError", "All connection attempts failed")}

WriteOutcomes == {"ok", "open_fails", "write_fails"}

\* variant: the path is returned without the check that the file was written
save_autism_image_locally_unverified(image_data, disk, dir, n) ==
    LET local_filename == "autism_annotated_" \o uuid4_hex(n) \o ".jpg"
    IN IF Len(image_data) > 0
       THEN [local_path |-> "/annotated/" \o local_filename,
             dir |-> IF disk = "open_fails" THEN dir
                     ELSE write_file(dir, local_filename,
                                     IF disk = "write_fails" THEN 0 ELSE 1)]
       ELSE [local_path |-> "", dir |-> dir]

\* variant: the file name is not freshly generated
save_autism_image_locally_fixed_name(image_data, disk, dir, n) ==
    LET local_filename == "autism_annotated_" \o uuid4_hex(0) \o ".jpg"
    IN IF Len(image_data) > 0
       THEN IF disk = "open_fails"
            THEN [local_path |-> "", dir |-> dir]
            ELSE IF disk = "write_fails"
            THEN [local_path |-> "", dir |-> write_file(dir, local_filename, 0)]
            ELSE [local_path |-> "/annotated/" \o local_filename,
                  dir |-> write_file(dir, local_filename, 1)]
       ELSE [local_path |-> "", dir |-> dir]

\* returns the local path ("" stands for None) and the directory afterwards
save_autism_image_locally(image_data, disk, dir, n) ==
    LET local_filename == "autism_annotated_" \o uuid4_hex(n) \o ".jpg"
    IN IF Len(image_data) > 0
       THEN IF disk = "open_fails"
            THEN [local_path |-> "", dir |-> dir]
            ELSE IF disk = "write_fails"
            THEN [local_path |-> "", dir |-> write_file(dir, local_filename, 0)]
            ELSE LET written == write_file(dir, local_filename, 1)
                 IN IF exists(written, local_filename)
                       /\ getsize(written, local_filename) > 0
                    THEN [local_path |-> "/annotated/" \o local_filename,
                          dir |-> written]
                    ELSE [local_path |-> "", dir |-> written]
       ELSE [local_path |-> "", dir |-> dir]

\* lines 232-259 of forward_to_next_api: the GET, the save, the rewrite, the return
\* variant: the local path is stored under the key the Age Screener uses
\* for its own artifact
relocate_under_own_key(response, g, disk, dir, n) ==
    IF g.kind = "response" /\ g.status_code = 200
    THEN LET saved == save_autism_image_locally(g.content, disk, dir, n)
         IN [data |-> IF saved.local_path # ""
                      THEN [annotated_image_url |-> JStr(saved.local_path)]
                           @@ response
                      ELSE response,
             dir |-> saved.dir,
             uuids |-> n,
             disk |-> IF Len(g.content) > 0 THEN disk ELSE "unused"]
    ELSE [data |-> response, dir |-> dir, uuids |-> n - 1, disk |-> "unused"]

relocate(response, g, disk, dir, n) ==
    IF g.kind = "response" /\ g.status_code = 200
    THEN LET saved == save_autism_image_locally(g.content, disk, dir, n)
         IN [data |-> IF saved.local_path # ""
                      THEN [response EXCEPT
                               !["annotated_image_path"] = JStr(saved.local_path)]
                      ELSE response,
             dir |-> saved.dir,
             uuids |-> n,
             disk |-> IF Len(g.content) > 0 THEN disk ELSE "unused"]
    ELSE [data |-> response, dir |-> dir, uuids |-> n - 1, disk |-> "unused"]

download_autism_image ==
    /\ UNCHANGED <<keep_alives, TEMP_LOG_FILE, requests, fileops, downstream>>
    /\ stage = "age"
    /\ pc = "get"
    /\ \E g \in GetOutcomes, disk \in WriteOutcomes :
           LET url == image_url(autism_response["annotated_image_path"].v)
               r == relocate(autism_response, g, disk, AUTISM_ANNOTATED_DIR, uuids + 1)
           IN /\ gets' = Append(gets, [url |-> url, outcome |-> g, disk |-> r.disk])
              /\ AUTISM_ANNOTATED_DIR' = r.dir
              /\ uuids' = r.uuids
              /\ autism_response' = r.data
              /\ forward_result' = success(JObject(r.data))
    /\ pc' = "respond"
    /\ UNCHANGED <<stage, upload, attempt, posts, sleeps, received, detection,
                   temp_input_path, TEMP_INPUT_DIR, TEMP_OUTPUT_DIR, resp>>

(***************************************************************************)
(* The handlers after the forwarding engine has returned.                  *)
(***************************************************************************)
filter_main_response(result, face_count, annotated_filename) ==
    IF result.status = "success"
    THEN JSONResponse(200,
            [valid |-> TRUE,
             status |-> "face_validated_and_processed",
             message |-> "Human face validated and processed by age API.",
             face_count |-> face_count,
             annotated_image_url |-> "/annotated_face/" \o annotated_filename,
             age_analysis_data |-> result.data])
    ELSE JSONResponse(503,
            [valid |-> FALSE,
             status |-> "age_api_unavailable",
             message |-> "Face validation passed but age analysis service is currently unavailable.",
             error |-> result.error,
             face_count |-> face_count,
             annotated_image_url |-> "/annotated_face/" \o annotated_filename])

\* variant: the failure response carries the error alone
process_image_gateway_response_bare(result, age_check_result) ==
    IF result.status = "success"
    THEN JSONResponse(200,
            [age_analysis_data |->
                [status |-> "child_autism_screened",
                 message |-> "Child detected. Autism analysis performed.",
                 autism_prediction_data |-> result.data,
                 age_check_summary |-> age_check_result]]
            @@ base_response(age_check_result))
    ELSE JSONResponse(500,
            [valid |-> FALSE,
             status |-> "autism_api_failed",
             message |-> "Autism detection service is currently unavailable.",
             error |-> result.error])

process_image_gateway_response(result, age_check_result) ==
    IF result.status = "success"
    THEN JSONResponse(200,
            [age_analysis_data |->
                [status |-> "child_autism_screened",
                 message |-> "Child detected. Autism analysis performed.",
                 autism_prediction_data |-> result.data,
                 age_check_summary |-> age_check_result]]
            @@ base_response(age_check_result))
    ELSE JSONResponse(500,
            [valid |-> FALSE,
             status |-> "autism_api_failed",
             message |-> "Autism detection service is currently unavailable.",
             error |-> result.error,
             age_check_summary |-> age_check_result])

filter_main_respond ==
    /\ UNCHANGED <<keep_alives, TEMP_LOG_FILE, requests, fileops, downstream>>
    /\ stage = "gate"
    /\ pc = "respond"
    /\ resp' = filter_main_response(forward_result, detection.face_count,
                                    detection.annotated_filename)
    /\ pc' = "finally"
    /\ UNCHANGED <<stage, upload, attempt, posts, sleeps, gets, received,
                   autism_response, forward_result, detection, temp_input_path,
                   TEMP_INPUT_DIR, TEMP_OUTPUT_DIR, AUTISM_ANNOTATED_DIR, uuids>>

process_image_gateway_respond ==
    /\ UNCHANGED <<keep_alives, TEMP_LOG_FILE, requests, fileops, downstream>>
    /\ stage = "age"
    /\ pc = "respond"
    /\ resp' = process_image_gateway_response(forward_result, detection)
    /\ pc' = "finally"
    /\ UNCHANGED <<stage, upload, attempt, posts, sleeps, gets, received,
                   autism_response, forward_result, detection, temp_input_path,
                   TEMP_INPUT_DIR, TEMP_OUTPUT_DIR, AUTISM_ANNOTATED_DIR, uuids>>

\* the finally block of both handlers
cleanup ==
    /\ UNCHANGED <<keep_alives, TEMP_LOG_FILE, requests, fileops, downstream>>
    /\ pc = "finally"
    /\ TEMP_INPUT_DIR' = (IF exists(TEMP_INPUT_DIR, temp_input_path)
                          THEN remove(TEMP_INPUT_DIR, temp_input_path)
                          ELSE TEMP_INPUT_DIR)
    /\ pc' = "done"
    /\ UNCHANGED <<stage, upload, attempt, posts, sleeps, gets, received,
                   autism_response, forward_result, detection, temp_input_path,
                   TEMP_OUTPUT_DIR, AUTISM_ANNOTATED_DIR, uuids, resp>>

(***************************************************************************)
(* Region Classifier.  run_inference returns the results and the name of   *)
(* the annotated file, or raises; predict is the whole handler.            *)
(***************************************************************************)
\* the three entries appended for one face, in the order of the regions dict
region_results(face) ==
    <<[region |-> "eyes", label |-> face.eyes.label,
       confidence |-> face.eyes.confidence],
      [region |-> "nose", label |-> face.nose.label,
       confidence |-> face.nose.confidence],
      [region |-> "lips", label |-> face.lips.label,
       confidence |-> face.lips.confidence]>>

\* str(KeyError('label')): at the second face r['label'] is read from the
\* final_decision entry of the first face
KeyError_label_str == "'label'"

Raises(message) == [raised |-> TRUE, message |-> message, results |-> <<>>]

\* crop.size of image[y_min:y_max, x_min:x_max]
crop_size(box, width, height) ==
    slice_len(box.y_min, box.y_max, height) * slice_len(box.x_min, box.x_max, width)

\* str(e) of the cv2.error raised by cv2.cvtColor for an empty crop
cvtColor_error_str ==
    "OpenCV(4.8.0) error: (-215:Assertion failed) !_src.empty() in function 'cvtColor'"

\* one of the three crops of the face is empty
empty_crop(face) ==
    \E box \in {face.eyes.box, face.nose.box, face.lips.box} :
        crop_size(box, ImageSize, ImageSize) = 0

run_inference(content, raises, faces) ==
    IF content # "image" THEN Raises("Cannot read image")
    ELSE IF raises = "processing" THEN Raises(ProcessingError_str)
    ELSE IF Len(faces) = 0
    THEN Raises(HTTPException_str(400, "No face detected in the image"))
    ELSE IF empty_crop(faces[1]) THEN Raises(cvtColor_error_str)
    ELSE IF Len(faces) > 1
    THEN IF empty_crop(faces[2]) THEN Raises(cvtColor_error_str)
         ELSE Raises(KeyError_label_str)
    ELSE [raised |-> FALSE, message |-> "",
          results |-> region_results(faces[1])
                      \o <<[final_decision |-> faces[1].decision]>>]

\* the rows appended to prediction_log.csv: the region entries of results,
\* each with the final decision of the last face
prediction_log_rows(results) ==
    LET final_dec == results[Len(results)].final_decision
        entries == SelectSeq(results, LAMBDA r : "region" \in DOMAIN r)
    IN [i \in 1..Len(entries) |->
           entries[i] @@ [final_decision |-> final_dec]]

\* variant: an HTTPException raised by run_inference keeps its status code
predict_response_keeping_status(r, out_file) ==
    IF r.raised
    THEN IF r.message = HTTPException_str(400, "No face detected in the image")
         THEN HTTPException(400, "No face detected in the image")
         ELSE HTTPException(500, r.message)
    ELSE JSONResponse(200,
            [status |-> "success",
             results |-> r.results,
             annotated_image_path |-> "/annotated/" \o out_file])

\* the response of predict: "except Exception" answers every exception of
\* run_inference, its own HTTPException included, with a 500
predict_response(r, out_file) ==
    IF r.raised
    THEN HTTPException(500, r.message)
    ELSE JSONResponse(200,
            [status |-> "success",
             results |-> r.results,
             annotated_image_path |-> "/annotated/" \o out_file])

predict ==
    /\ UNCHANGED <<keep_alives, requests, fileops, downstream>>
    /\ stage = "region"
    /\ pc = "received"
    /\ LET temp_path == temp_name(uuids + 1)
           out_file == "annotated_" \o uuid4_hex(uuids + 2) \o ".jpg"
           saved == write_file(TEMP_INPUT_DIR, temp_path,
                               IF upload.content = "empty" THEN 0 ELSE 1)
           r == run_inference(upload.content, upload.raises, upload.faces)
       IN /\ temp_input_path' = temp_path
          /\ IF r.raised
             THEN /\ TEMP_INPUT_DIR' = remove(saved, temp_path)
                  /\ resp' = predict_response(r, out_file)
                  /\ uuids' = uuids + 1
                  /\ UNCHANGED <<TEMP_OUTPUT_DIR, TEMP_LOG_FILE>>
             ELSE \* the os.remove after the except block is never reached
                  /\ TEMP_INPUT_DIR' = saved
                  /\ TEMP_OUTPUT_DIR' =
                        imwrite(TEMP_OUTPUT_DIR, out_file, upload.written)
                  /\ TEMP_LOG_FILE' =
                        TEMP_LOG_FILE \o prediction_log_rows(r.results)
                  /\ resp' = predict_response(r, out_file)
                  /\ uuids' = uuids + 2
    /\ pc' = "done"
    /\ UNCHANGED <<stage, upload, attempt, posts, sleeps, gets, received,
                   autism_response, forward_result, detection,
                   AUTISM_ANNOTATED_DIR>>

Next ==
    \/ filter_main
    \/ filter_main_resumed
    \/ process_image_gateway
    \/ process_image_gateway_resumed
    \/ keep_alive
    \/ predict
    \/ forward_to_age_api_attempt
    \/ forward_to_next_api_attempt
    \/ asyncio_sleep
    \/ download_autism_image
    \/ filter_main_respond
    \/ process_image_gateway_respond
    \/ cleanup

Spec == Init /\ [][Next]_vars

(***************************************************************************)
(* Concurrent requests to one stage.  The requests share the directories   *)
(* of the stage, its log file and the uuid generator; a handler gives way  *)
(* to the other requests where it awaits (file.read, the forwarding        *)
(* engine).  Every write and removal of a file is recorded in fileops.     *)
(***************************************************************************)
Filenames == {"a.jpg", "b.jpg"}

\* the variables of the single request followed by Spec
single == <<upload, pc, attempt, posts, sleeps, gets, received,
            autism_response, forward_result, detection, temp_input_path, resp>>

InitConcurrent ==
    /\ stage \in {"gate", "age", "region"}
    /\ requests \in [1..NumRequests ->
                        [pc : {"received"}, filename : Filenames,
                         temp_input_path : {""}, ids : {{}}]]
    /\ requests[1].filename = "a.jpg"
    \* the requests are numbered with those named a.jpg first
    /\ \A q, r \in DOMAIN requests :
           (q < r /\ requests[q].filename = "b.jpg") =>
               requests[r].filename = "b.jpg"
    /\ fileops = {}
    /\ downstream = NoDownstream
    /\ keep_alives = 0
    /\ TEMP_LOG_FILE = <<>>
    /\ TEMP_INPUT_DIR = {}
    /\ TEMP_OUTPUT_DIR = {}
    /\ AUTISM_ANNOTATED_DIR = {}
    /\ uuids = 0
    /\ upload = Upload("image/jpeg", "image", <<>>, <<>>, <<>>)
    /\ pc = "received"
    /\ attempt = 0
    /\ posts = <<>>
    /\ sleeps = <<>>
    /\ gets = <<>>
    /\ received = NotJson
    /\ autism_response = NoObj
    /\ forward_result = NoResult
    /\ detection = NoObj
    /\ temp_input_path = ""
    /\ resp = NoResponse

FileOp(r, op, dir, path) == [request |-> r, op |-> op, dir |-> dir, path |-> path]

\* the handler up to "await file.read()".  The Gatekeeper and the Age
\* Screener refuse an upload that is no image before anything else is done
\* ("refused"); otherwise they have chosen the temp path by then, and the
\* Age Screener has opened the file for writing, which creates it empty.
\* predict reads no content type
request_read(r) ==
    /\ requests[r].pc = "received"
    /\ \E outcome \in {"refused", "read"} :
          /\ outcome = "refused" => stage \in {"gate", "age"}
          /\ IF outcome = "refused"
             THEN /\ requests' = [requests EXCEPT ![r].pc = "done"]
                  /\ UNCHANGED <<uuids, TEMP_INPUT_DIR, fileops>>
             ELSE IF stage = "region"
             THEN /\ requests' = [requests EXCEPT ![r].pc = "read"]
                  /\ UNCHANGED <<uuids, TEMP_INPUT_DIR, fileops>>
             ELSE LET path == temp_input_name(uuids + 1, requests[r].filename)
                  IN /\ requests' = [requests EXCEPT
                            ![r].pc = "read",
                            ![r].temp_input_path = path,
                            ![r].ids = {uuids + 1}]
                     /\ uuids' = uuids + 1
                     /\ IF stage = "age"
                        THEN /\ TEMP_INPUT_DIR' =
                                   write_file(TEMP_INPUT_DIR, path, 0)
                             /\ fileops' = fileops \cup
                                   {FileOp(r, "write", "TEMP_INPUT_DIR", path)}
                        ELSE UNCHANGED <<TEMP_INPUT_DIR, fileops>>
    /\ UNCHANGED <<stage, TEMP_LOG_FILE, TEMP_OUTPUT_DIR, AUTISM_ANNOTATED_DIR,
                   single, downstream, keep_alives>>

\* filter_main and process_image_gateway from the return of file.read() to
\* the call of the forwarding engine, where the handler gives way, or
\* through the finally block to the end of the handler:
\*   "empty"        Gatekeeper, empty upload: refused before the file is
\*                  opened
\*   "no_artifact"  the upload is saved and the request ends before an
\*                  identifier is drawn for an annotated image (Gatekeeper:
\*                  unreadable image, animal, no human face; Age Screener:
\*                  empty or unreadable image, the face network raises)
\*   "raises"       Gatekeeper: cv2.imwrite raises after the identifier of
\*                  the annotated image was drawn
\*   "rejected"     Age Screener: annotated image written, no minor found
\*   "accepted"     annotated image written, the engine is called
\* cv2.imwrite may return False for the annotated image: no file is written
\* then, and the handler goes on as if it had been
request_process(r) ==
    /\ stage \in {"gate", "age"}
    /\ requests[r].pc = "read"
    /\ LET path == requests[r].temp_input_path
           annotated == annotated_name(IF stage = "gate" THEN "face_" ELSE "age_",
                                       uuids + 1)
           saved == FileOp(r, "write", "TEMP_INPUT_DIR", path)
           removed == FileOp(r, "remove", "TEMP_INPUT_DIR", path)
           written == write_file(TEMP_INPUT_DIR, path, 1)
       IN \E outcome \in {"empty", "no_artifact", "raises", "rejected",
                           "accepted"}, wrote \in BOOLEAN :
             /\ outcome \in {"empty", "raises"} => stage = "gate"
             /\ outcome = "rejected" => stage = "age"
             /\ ~wrote => outcome \in {"rejected", "accepted"}
             /\ TEMP_INPUT_DIR' = IF outcome = "accepted" THEN written
                                  ELSE IF outcome = "empty" THEN TEMP_INPUT_DIR
                                  ELSE remove(written, path)
             /\ fileops' = fileops \cup
                   (CASE outcome = "empty" -> {}
                      [] outcome \in {"no_artifact", "raises"} -> {saved, removed}
                      [] outcome = "rejected" ->
                           {saved, removed} \cup
                           (IF wrote
                            THEN {FileOp(r, "write", "TEMP_OUTPUT_DIR", annotated)}
                            ELSE {})
                      [] outcome = "accepted" ->
                           {saved} \cup
                           (IF wrote
                            THEN {FileOp(r, "write", "TEMP_OUTPUT_DIR", annotated)}
                            ELSE {}))
             /\ TEMP_OUTPUT_DIR' =
                   IF outcome \in {"rejected", "accepted"}
                   THEN imwrite(TEMP_OUTPUT_DIR, annotated, wrote)
                   ELSE TEMP_OUTPUT_DIR
             /\ IF outcome \in {"empty", "no_artifact"}
                THEN /\ requests' = [requests EXCEPT ![r].pc = "done"]
                     /\ UNCHANGED uuids
                ELSE /\ uuids' = uuids + 1
                     /\ requests' = [requests EXCEPT
                           ![r].pc = IF outcome = "accepted"
                                     THEN "forward" ELSE "done",
                           ![r].ids = @ \cup {uuids + 1}]
    /\ UNCHANGED <<stage, TEMP_LOG_FILE, AUTISM_ANNOTATED_DIR, single,
                   downstream, keep_alives>>

\* the last request of the forwarding engine is answered.  When the Region
\* Classifier named an artifact and the GET of it answered 200
\* ("downloaded"), forward_to_next_api calls save_autism_image_locally on the
\* body: the call draws an identifier whatever the body is, and creates a
\* file unless the body is empty or the file cannot be opened.  The engine
\* then leaves "async with httpx.AsyncClient", where it may give way again
request_forwarded(r) ==
    /\ requests[r].pc = "forward"
    /\ \E downloaded \in BOOLEAN :
          IF downloaded
          THEN /\ stage = "age"
               /\ \E g \in {o \in GetOutcomes :
                              o.kind = "response" /\ o.status_code = 200},
                     disk \in WriteOutcomes :
                     LET filename == annotated_name("autism_", uuids + 1)
                         saved == save_autism_image_locally(
                                      g.content, disk, AUTISM_ANNOTATED_DIR,
                                      uuids + 1)
                     IN /\ AUTISM_ANNOTATED_DIR' = saved.dir
                        /\ fileops' =
                              IF exists(saved.dir, filename)
                              THEN fileops \cup
                                   {FileOp(r, "write", "AUTISM_ANNOTATED_DIR",
                                           filename)}
                              ELSE fileops
               /\ uuids' = uuids + 1
               /\ requests' = [requests EXCEPT ![r].pc = "finally",
                                               ![r].ids = @ \cup {uuids + 1}]
          ELSE /\ requests' = [requests EXCEPT ![r].pc = "finally"]
               /\ UNCHANGED <<AUTISM_ANNOTATED_DIR, fileops, uuids>>
    /\ UNCHANGED <<stage, TEMP_LOG_FILE, TEMP_INPUT_DIR, TEMP_OUTPUT_DIR, single,
                   downstream, keep_alives>>

\* the handler answers after the engine has returned, and its finally block
\* removes the temp file
request_finally(r) ==
    /\ requests[r].pc = "finally"
    /\ LET path == requests[r].temp_input_path
       IN IF exists(TEMP_INPUT_DIR, path)
          THEN /\ TEMP_INPUT_DIR' = remove(TEMP_INPUT_DIR, path)
               /\ fileops' = fileops \cup
                     {FileOp(r, "remove", "TEMP_INPUT_DIR", path)}
          ELSE UNCHANGED <<TEMP_INPUT_DIR, fileops>>
    /\ requests' = [requests EXCEPT ![r].pc = "done"]
    /\ UNCHANGED <<stage, TEMP_LOG_FILE, TEMP_OUTPUT_DIR, AUTISM_ANNOTATED_DIR,
                   uuids, single,
                   downstream, keep_alives>>

\* a face the Region Classifier classifies without an error
PlainFace ==
    CHOOSE face \in RegionFaceChoices :
        ~empty_crop(face) /\ face.decision = "autistic"

\* predict after "await file.read()": it does not await again
request_predict(r) ==
    /\ stage = "region"
    /\ requests[r].pc = "read"
    /\ LET temp_path == temp_name(uuids + 1)
           out_file == annotated_name("", uuids + 2)
           saved == FileOp(r, "write", "cwd", temp_path)
       IN \E faces \in {<<>>, <<PlainFace>>}, wrote \in BOOLEAN :
            LET result == run_inference("image", "none", faces)
            IN IF result.raised
               THEN /\ fileops' = fileops \cup
                          {saved, FileOp(r, "remove", "cwd", temp_path)}
                    /\ requests' = [requests EXCEPT
                          ![r].pc = "done",
                          ![r].temp_input_path = temp_path,
                          ![r].ids = {uuids + 1}]
                    /\ uuids' = uuids + 1
                    /\ UNCHANGED <<TEMP_INPUT_DIR, TEMP_OUTPUT_DIR, TEMP_LOG_FILE>>
               ELSE /\ TEMP_INPUT_DIR' = write_file(TEMP_INPUT_DIR, temp_path, 1)
                    /\ TEMP_OUTPUT_DIR' =
                          imwrite(TEMP_OUTPUT_DIR, out_file, wrote)
                    /\ TEMP_LOG_FILE' =
                          TEMP_LOG_FILE \o prediction_log_rows(result.results)
                    /\ fileops' = fileops \cup
                          {saved,
                           FileOp(r, "write", "BASE_DIR", "prediction_log.csv")}
                          \cup (IF wrote
                                THEN {FileOp(r, "write", "TEMP_OUTPUT_DIR",
                                             out_file)}
                                ELSE {})
                    /\ requests' = [requests EXCEPT
                          ![r].pc = "done",
                          ![r].temp_input_path = temp_path,
                          ![r].ids = {uuids + 1, uuids + 2}]
                    /\ uuids' = uuids + 2
    /\ UNCHANGED <<stage, AUTISM_ANNOTATED_DIR, single,
                   downstream, keep_alives>>

NextConcurrent ==
    \/ \E r \in DOMAIN requests : request_read(r)
    \/ keep_alive
    \/ \E r \in DOMAIN requests : request_process(r)
    \/ \E r \in DOMAIN requests : request_forwarded(r)
    \/ \E r \in DOMAIN requests : request_finally(r)
    \/ \E r \in DOMAIN requests : request_predict(r)

SpecConcurrent == InitConcurrent /\ [][NextConcurrent]_vars

(***************************************************************************)
(* The pipeline.  One request to the Gatekeeper, whose client.post calls   *)
(* are answered by handlers of the Age Screener, whose client.post calls   *)
(* are answered by the Region Classifier.  downstream holds the two        *)
(* services behind the Gatekeeper:                                         *)
(*   ages        what the age network reports for the faces of the image   *)
(*   faces       what the Region Classifier detects in the image           *)
(*   region      "up": the Region Classifier answers its calls; "down":    *)
(*               every call to it times out                                *)
(*   written     whether cv2.imwrite of the two services writes its file   *)
(*   handlers    the requests of the Age Screener, one for each call of    *)
(*               the Gatekeeper, each with the variables Spec keeps for a  *)
(*               single request                                            *)
(*   age         the Age Screener's uuid generator, the keep-alive         *)
(*               requests it has answered, and its directories             *)
(*   classifier  the Region Classifier's uuid generator, working           *)
(*               directory, output directory and log file                  *)
(* The handler of a call the Gatekeeper gave up on runs to its end.        *)
(***************************************************************************)
\* keys of the response bodies whose values are strings
StringKeys == {"status", "message", "error", "detail",
               "annotated_image_url", "annotated_image_path"}

\* the JSON body FastAPI sends for a response content
json_body(content) ==
    JObject([k \in DOMAIN content |->
                IF k \in StringKeys THEN JStr(content[k])
                ELSE [t |-> "json", v |-> content[k]]])

PipelineUploads ==
    {Upload("image/jpeg", "image", <<>>, <<Face(4, 4)>>, <<>>),
     Png(Upload("image/jpeg", "image", <<>>, <<Face(4, 4)>>, <<>>)),
     Upload("image/jpeg", "image", <<[name |-> "dog", conf |-> 90]>>,
            <<Face(4, 4)>>, <<>>)}

InitPipeline ==
    /\ stage = "gate"
    /\ upload \in PipelineUploads
    /\ downstream \in
           [ages : {<<>>, <<"(4-6)">>, <<"(25-32)">>},
            faces : {<<>>, <<PlainFace>>},
            region : {"up", "down"},
            written : BOOLEAN,
            handlers : {<<>>},
            age : {[uuids |-> 0, keep_alives |-> 0, TEMP_INPUT_DIR |-> {},
                    TEMP_OUTPUT_DIR |-> {}, AUTISM_ANNOTATED_DIR |-> {}]},
            classifier : {[uuids |-> 0, cwd |-> {}, TEMP_OUTPUT_DIR |-> {},
                           TEMP_LOG_FILE |-> <<>>]}]
    \* a failing cv2.imwrite is tried where both services write an image
    /\ ~downstream.written =>
           /\ downstream.faces # <<>>
           /\ downstream.region = "up"
    /\ pc = "received"
    /\ attempt = 0
    /\ posts = <<>>
    /\ sleeps = <<>>
    /\ gets = <<>>
    /\ received = NotJson
    /\ autism_response = NoObj
    /\ forward_result = NoResult
    /\ detection = NoObj
    /\ temp_input_path = ""
    /\ TEMP_INPUT_DIR = {}
    /\ TEMP_OUTPUT_DIR = {}
    /\ AUTISM_ANNOTATED_DIR = {}
    /\ uuids = 0
    /\ resp = NoResponse
    /\ TEMP_LOG_FILE = <<>>
    /\ keep_alives = 0
    /\ requests = <<>>
    /\ fileops = {}

\* the variables of the Gatekeeper's request and of the Gatekeeper
gatekeeper == <<stage, upload, pc, attempt, posts, sleeps, gets, received,
                autism_response, forward_result, detection, temp_input_path,
                TEMP_INPUT_DIR, TEMP_OUTPUT_DIR, AUTISM_ANNOTATED_DIR, uuids,
                resp, keep_alives, TEMP_LOG_FILE, requests, fileops>>

\* a request of the Age Screener as it arrives: sent is the file part of the
\* multipart body; pending holds the answer of the Region Classifier to the
\* call in flight, once there is one
Handler(sent) ==
    [pc |-> "received", sent |-> sent, attempt |-> 0, posts |-> <<>>,
     sleeps |-> <<>>, gets |-> <<>>, autism_response |-> NoObj,
     forward_result |-> NoResult, detection |-> NoObj, temp_input_path |-> "",
     resp |-> NoResponse, pending |-> <<>>]

\* keep_alive (GET /keepalive) of the Age Screener, answered at any point
\* between the steps of its handlers: the answer carries a uuid4 as its
\* timestamp; nothing else changes
age_keep_alive ==
    /\ downstream # NoDownstream
    /\ downstream.age.keep_alives < MaxKeepAlives
    /\ downstream' = [downstream EXCEPT !.age.uuids = @ + 1,
                                        !.age.keep_alives = @ + 1]
    /\ UNCHANGED gatekeeper

\* forward_to_age_api: client.post is called and awaited; the request
\* arrives at the Age Screener
pipeline_post ==
    /\ stage = "gate"
    /\ pc = "forward"
    /\ attempt < MaxAttempts
    /\ downstream # NoDownstream
    /\ downstream' = [downstream EXCEPT !.handlers =
           Append(@, Handler(files(temp_input_path)))]
    /\ pc' = "await"
    /\ UNCHANGED <<stage, upload, attempt, posts, sleeps, gets, received,
                   autism_response, forward_result, detection, temp_input_path,
                   TEMP_INPUT_DIR, TEMP_OUTPUT_DIR, AUTISM_ANNOTATED_DIR, uuids,
                   resp, keep_alives, TEMP_LOG_FILE, requests, fileops>>

\* process_image_gateway of request k up to "await file.read()": the
\* content type is checked, the temp path chosen and the file opened
handler_read(k) ==
    /\ downstream.handlers[k].pc = "received"
    /\ LET h == downstream.handlers[k]
           age == downstream.age
           path == temp_input_name(age.uuids + 1, h.sent.filename)
       IN IF ~startswith(h.sent.content_type, "image/")
          THEN downstream' = [downstream EXCEPT !.handlers[k] =
                   [h EXCEPT !.resp = HTTPException(400, "File must be an image"),
                             !.pc = "done"]]
          ELSE downstream' = [downstream EXCEPT
                   !.handlers[k] = [h EXCEPT !.temp_input_path = path,
                                             !.pc = "read"],
                   !.age = [age EXCEPT
                               !.uuids = @ + 1,
                               !.TEMP_INPUT_DIR = write_file(@, path, 0)]]
    /\ UNCHANGED gatekeeper

\* process_image_gateway of request k from the return of "await
\* file.read()" to the call of the forwarding engine or to the finally
\* block.  The file the Gatekeeper sends is one it has read as an image
handler_resumed(k) ==
    /\ downstream.handlers[k].pc = "read"
    /\ LET h == downstream.handlers[k]
           age == downstream.age
           annotated_filename ==
               "age_annotated_" \o uuid4_hex(age.uuids + 1) \o ".jpg"
           age_check_result ==
               process_image_for_age_check(
                   highlightFace_and_annotate(
                       [i \in 1..Len(downstream.ages) |-> GoodDetection],
                       downstream.ages),
                   annotated_filename)
       IN downstream' = [downstream EXCEPT
              !.age = [age EXCEPT
                          !.uuids = @ + 1,
                          !.TEMP_INPUT_DIR = write_file(@, h.temp_input_path, 1),
                          !.TEMP_OUTPUT_DIR = imwrite(@, annotated_filename,
                                                      downstream.written)],
              !.handlers[k] =
                  IF ~age_check_result.has_faces
                  THEN [h EXCEPT !.detection = age_check_result,
                                 !.resp = no_faces_detected_response(age_check_result),
                                 !.pc = "finally"]
                  ELSE IF age_check_result.contains_kids
                  THEN [h EXCEPT !.detection = age_check_result,
                                 !.pc = "forward"]
                  ELSE [h EXCEPT !.detection = age_check_result,
                                 !.resp = adult_invalid_response(age_check_result),
                                 !.pc = "finally"]]
    /\ UNCHANGED gatekeeper

\* forward_to_next_api of request k: client.post is called and awaited
handler_post(k) ==
    /\ downstream.handlers[k].pc = "forward"
    /\ downstream.handlers[k].attempt < MaxAttempts
    /\ downstream' = [downstream EXCEPT !.handlers[k].pc = "await"]
    /\ UNCHANGED gatekeeper

\* predict of the Region Classifier for the call of request k, from the
\* return of its "await file.read()" to its answer
classifier_predict(k) ==
    /\ downstream.region = "up"
    /\ downstream.handlers[k].pc = "await"
    /\ downstream.handlers[k].pending = <<>>
    /\ LET c == downstream.classifier
           temp_path == temp_name(c.uuids + 1)
           out_file == "annotated_" \o uuid4_hex(c.uuids + 2) \o ".jpg"
           r == run_inference("image", "none", downstream.faces)
           response == predict_response(r, out_file)
       IN downstream' = [downstream EXCEPT
              !.classifier =
                  IF r.raised
                  THEN \* the temp file is written and removed
                       [c EXCEPT !.uuids = @ + 1]
                  ELSE [c EXCEPT
                           !.uuids = @ + 2,
                           !.cwd = write_file(@, temp_path, 1),
                           !.TEMP_OUTPUT_DIR = imwrite(@, out_file,
                                                       downstream.written),
                           !.TEMP_LOG_FILE = @ \o prediction_log_rows(r.results)],
              !.handlers[k].pending =
                  <<Answer(response.status_code, json_body(response.content))>>]
    /\ UNCHANGED gatekeeper

\* what the engine of request h does with the outcome o of its client.post
handler_step(h, o) ==
    LET step == forward_to_next_api(h.attempt, o)
        posted == [h EXCEPT !.posts = Append(@, [attempt |-> h.attempt + 1,
                                                 timeout |-> Timeout(h.attempt),
                                                 files |-> files(h.temp_input_path),
                                                 outcome |-> o,
                                                 waited |-> h.sleeps]),
                            !.pending = <<>>]
    IN IF step.next = "return"
       THEN [posted EXCEPT !.pc = "respond", !.forward_result = step.result]
       ELSE IF step.next = "sleep"
       THEN [posted EXCEPT !.pc = "sleep", !.sleeps = Append(@, step.seconds)]
       ELSE [posted EXCEPT !.pc = "get", !.autism_response = o.body.obj]

\* client.post of request k returns with the answer of the Region Classifier
handler_answered(k) ==
    /\ downstream.handlers[k].pc = "await"
    /\ downstream.handlers[k].pending # <<>>
    /\ downstream' = [downstream EXCEPT !.handlers[k] =
           handler_step(@, @.pending[1])]
    /\ UNCHANGED gatekeeper

\* client.post of request k times out: the Region Classifier is down
handler_timeout(k) ==
    /\ downstream.region = "down"
    /\ downstream.handlers[k].pc = "await"
    /\ downstream' = [downstream EXCEPT !.handlers[k] =
           handler_step(@, Raised("TimeoutException",
                                  "The read operation timed out"))]
    /\ UNCHANGED gatekeeper

\* asyncio.sleep of request k returns
handler_sleep(k) ==
    /\ downstream.handlers[k].pc = "sleep"
    /\ downstream' = [downstream EXCEPT !.handlers[k].pc = "forward",
                                        !.handlers[k].attempt = @ + 1]
    /\ UNCHANGED gatekeeper

\* the answers to the GET of the artifact: the Region Classifier mounts no
\* static directory and answers 404, or the call fails
PipelineGetOutcomes ==
    {GetAnswer(404, "Not Found"),
     GetRaised("TimeoutException", "The read operation timed out")}

\* forward_to_next_api of request k: client.get is called and awaited
handler_get(k) ==
    /\ downstream.handlers[k].pc = "get"
    /\ downstream' = [downstream EXCEPT !.handlers[k].pc = "download"]
    /\ UNCHANGED gatekeeper

\* client.get of request k returns or raises: the artifact is saved if it
\* was sent, and forward_to_next_api returns
handler_download(k) ==
    /\ downstream.handlers[k].pc = "download"
    /\ \E g \in PipelineGetOutcomes :
           LET h == downstream.handlers[k]
               age == downstream.age
               url == image_url(h.autism_response["annotated_image_path"].v)
               r == relocate(h.autism_response, g, "ok",
                             age.AUTISM_ANNOTATED_DIR, age.uuids + 1)
           IN downstream' = [downstream EXCEPT
                  !.age = [age EXCEPT !.uuids = r.uuids,
                                      !.AUTISM_ANNOTATED_DIR = r.dir],
                  !.handlers[k] =
                      [h EXCEPT !.gets = Append(@, [url |-> url, outcome |-> g,
                                                    disk |-> r.disk]),
                                !.autism_response = r.data,
                                !.forward_result = success(JObject(r.data)),
                                !.pc = "respond"]]
    /\ UNCHANGED gatekeeper

\* process_image_gateway of request k after the engine has returned
handler_respond(k) ==
    /\ downstream.handlers[k].pc = "respond"
    /\ LET h == downstream.handlers[k]
       IN downstream' = [downstream EXCEPT !.handlers[k] =
              [h EXCEPT !.resp = process_image_gateway_response(
                                     h.forward_result, h.detection),
                        !.pc = "finally"]]
    /\ UNCHANGED gatekeeper

\* the finally block of request k
handler_cleanup(k) ==
    /\ downstream.handlers[k].pc = "finally"
    /\ downstream' = [downstream EXCEPT
           !.age.TEMP_INPUT_DIR =
               remove(@, downstream.handlers[k].temp_input_path),
           !.handlers[k].pc = "done"]
    /\ UNCHANGED gatekeeper

\* the request of the pending call has ended and is answered: client.post
\* of the Gatekeeper returns
pipeline_answer ==
    /\ UNCHANGED <<keep_alives, TEMP_LOG_FILE, requests, fileops, downstream>>
    /\ stage = "gate"
    /\ pc = "await"
    /\ LET h == downstream.handlers[Len(downstream.handlers)]
           o == Answer(h.resp.status_code, json_body(h.resp.content))
       IN /\ h.pc = "done"
          /\ forward_step(forward_to_age_api(attempt, o), o)

\* the read timeout of the pending call expires: its request goes on
pipeline_timeout ==
    /\ UNCHANGED <<keep_alives, TEMP_LOG_FILE, requests, fileops, downstream>>
    /\ stage = "gate"
    /\ pc = "await"
    /\ Cardinality({i \in DOMAIN posts :
                       posts[i].outcome.kind = "TimeoutException"}) < MaxTimeouts
    /\ LET o == Raised("TimeoutException", "The read operation timed out")
       IN forward_step(forward_to_age_api(attempt, o), o)

NextPipeline ==
    \/ filter_main
    \/ filter_main_resumed
    \/ keep_alive
    \/ age_keep_alive
    \/ pipeline_post
    \/ \E k \in DOMAIN downstream.handlers : handler_read(k)
    \/ \E k \in DOMAIN downstream.handlers : handler_resumed(k)
    \/ \E k \in DOMAIN downstream.handlers : handler_post(k)
    \/ \E k \in DOMAIN downstream.handlers : classifier_predict(k)
    \/ \E k \in DOMAIN downstream.handlers : handler_answered(k)
    \/ \E k \in DOMAIN downstream.handlers : handler_timeout(k)
    \/ \E k \in DOMAIN downstream.handlers : handler_sleep(k)
    \/ \E k \in DOMAIN downstream.handlers : handler_get(k)
    \/ \E k \in DOMAIN downstream.handlers : handler_download(k)
    \/ \E k \in DOMAIN downstream.handlers : handler_respond(k)
    \/ \E k \in DOMAIN downstream.handlers : handler_cleanup(k)
    \/ pipeline_answer
    \/ pipeline_timeout
    \/ asyncio_sleep
    \/ filter_main_respond
    \/ cleanup

SpecPipeline == InitPipeline /\ [][NextPipeline]_vars

(***************************************************************************)
(* Vocabulary of the properties.                                           *)
(***************************************************************************)
Returned == forward_result.status # ""

Failed == forward_result.status = "forward_failed"

Succeeded == forward_result.status = "success"

InEngine == pc \in {"forward", "sleep", "get"}

Is200(p) == p.outcome.kind = "response" /\ p.outcome.status_code = 200

Is500(p) == p.outcome.kind = "response" /\ p.outcome.status_code = 500

IsOtherStatus(p) ==
    p.outcome.kind = "response" /\ p.outcome.status_code \notin {200, 500}

IsTimeout(p) == p.outcome.kind = "TimeoutException"

IsNetworkError(p) == p.outcome.kind = "RequestError"

IsOtherException(p) == p.outcome.kind = "Exception"

AllPosts(P(_)) == posts # <<>> /\ \A i \in 1..Len(posts) : P(posts[i])

LastPost == posts[Len(posts)]

\* the reason string states that n attempts were made
ReportsAttempts(error, n) == Contains(error, "after " \o str(n) \o " attempts")

\* post i was followed by a backoff wait and (once the wait is over) another attempt
Retried(i) == i < Len(posts) \/ (i = Len(posts) /\ pc = "sleep")

(***************************************************************************)
(* C1.  One call of a forwarding engine (forward_to_age_api of the         *)
(* Gatekeeper, forward_to_next_api of the Age Screener) sends at most 3    *)
(* POST requests, whatever the target answers, and the attempt count       *)
(* reported in a Failed outcome never exceeds 3.                           *)
(***************************************************************************)
C1_AtMostThreeAttempts ==
    /\ Len(posts) <= 3
    /\ Failed => \A n \in 4..12 : ~ReportsAttempts(forward_result.error, n)

C1_Witness ==
    /\ Failed
    /\ Len(posts) = 3
    /\ ReportsAttempts(forward_result.error, 3)

(***************************************************************************)
(* C2.  When the target answers HTTP 500 on every attempt, the engine      *)
(* makes exactly 3 calls, has waited at least 15s before the second call   *)
(* and at least 30s more before the third, and returns Failed.             *)
(***************************************************************************)
C2_Always500 ==
    (AllPosts(Is500) /\ ~InEngine) =>
        /\ Len(posts) = 3
        /\ posts[1].waited = <<>>
        /\ Len(posts[2].waited) = 1
        /\ posts[2].waited[1] >= 15
        /\ Len(posts[3].waited) = 2
        /\ posts[3].waited[2] >= 30
        /\ sleeps = posts[3].waited
        /\ Failed

C2_Witness ==
    /\ AllPosts(Is500)
    /\ Len(posts) = 3
    /\ Failed
    /\ pc = "done"

(***************************************************************************)
(* C3.  When every attempt times out, the engine returns Failed after      *)
(* exactly 3 attempts and its reason mentions the timeout and the attempt  *)
(* count 3.                                                                *)
(***************************************************************************)
C3_AlwaysTimeout ==
    (AllPosts(IsTimeout) /\ ~InEngine) =>
        /\ Len(posts) = 3
        /\ Failed
        /\ Contains(forward_result.error, "timed out")
        /\ ReportsAttempts(forward_result.error, 3)

C3_Witness ==
    /\ AllPosts(IsTimeout)
    /\ Len(posts) = 3
    /\ Failed
    /\ pc = "done"

(***************************************************************************)
(* C4.  An attempt answered with an HTTP status other than 200 and 500     *)
(* ends the call at once: Failed, no further attempt, no backoff wait, the *)
(* status code in the reason.                                              *)
(* As claimed: only a network error, a timeout or an HTTP 500 leads to     *)
(* another attempt.                                                        *)
(* As amended: another attempt is also made after any other exception      *)
(* raised during the attempt, which includes the exception raised while a  *)
(* 200 answer is read (a body that is not JSON and, in the Age Screener, a *)
(* JSON body that is not an object).                                       *)
(***************************************************************************)
C4_TerminalStatus ==
    \A i \in 1..Len(posts) :
        IsOtherStatus(posts[i]) =>
            /\ i = Len(posts)
            /\ ~InEngine
            /\ Failed
            /\ Contains(forward_result.error, str(posts[i].outcome.status_code))
            /\ sleeps = posts[i].waited

\* a 200 answer whose handling raises inside the engine's try block
Unreadable200(p) ==
    /\ Is200(p)
    /\ \/ p.outcome.body.json = "invalid"
       \/ stage = "age" /\ p.outcome.body.json # "object"

\* the claim as stated
C4_Original ==
    /\ C4_TerminalStatus
    /\ \A i \in 1..Len(posts) :
           Retried(i) =>
               IsNetworkError(posts[i]) \/ IsTimeout(posts[i]) \/ Is500(posts[i])

C4_Amended ==
    /\ C4_TerminalStatus
    /\ \A i \in 1..Len(posts) :
           Retried(i) =>
               \/ IsNetworkError(posts[i])
               \/ IsTimeout(posts[i])
               \/ Is500(posts[i])
               \/ IsOtherException(posts[i])
               \/ Unreadable200(posts[i])

\* a retry after a 500, then a terminal 404 on the second attempt
C4_Witness ==
    /\ Len(posts) = 2
    /\ Is500(posts[1])
    /\ IsOtherStatus(posts[2])
    /\ Failed
    /\ sleeps = <<15>>

(***************************************************************************)
(* C5.  The wait between attempt k and attempt k+1 (k = 1 or 2) depends    *)
(* only on the failure class of attempt k: 20s after a timeout, 15s x k    *)
(* after an HTTP 500, 10s after a generic network error.                   *)
(***************************************************************************)
C5_BackoffByClass ==
    \A k \in 1..Len(posts) :
        Retried(k) =>
            /\ k <= 2
            /\ Len(sleeps) >= k
            /\ IsTimeout(posts[k]) => sleeps[k] = 20
            /\ Is500(posts[k]) => sleeps[k] = 15 * k
            /\ IsNetworkError(posts[k]) => sleeps[k] = 10

\* a 500, a timeout and a network error in one call, each followed by its wait
C5_Witness ==
    /\ Len(posts) = 3
    /\ IsTimeout(posts[1])
    /\ Is500(posts[2])
    /\ IsNetworkError(posts[3])
    /\ sleeps = <<20, 30>>

(***************************************************************************)
(* C6.  Whenever the engine returns Failed after its third attempt, the    *)
(* reason names the failure class of the third attempt and states the      *)
(* attempt count, for an HTTP 500, a timeout and a generic network error.  *)
(* The code does so for a 500 and a timeout only.                          *)
(***************************************************************************)
NamesClass(error, p) ==
    /\ Is500(p) => Contains(error, "500")
    /\ IsTimeout(p) => Contains(error, "timed out")
    /\ IsNetworkError(p) =>
           Contains(error, "Network error") \/ Contains(error, p.outcome.message)

C6_ReasonAfterThird ==
    (Failed /\ Len(posts) = 3
       /\ (Is500(posts[3]) \/ IsTimeout(posts[3]) \/ IsNetworkError(posts[3]))) =>
        /\ NamesClass(forward_result.error, posts[3])
        /\ ReportsAttempts(forward_result.error, 3)

(***************************************************************************)
(* C7.  Whenever the target answers HTTP 200 with a JSON body, the engine  *)
(* returns Success on that attempt with the body as payload (the Age       *)
(* Screener may rewrite annotated_image_path) and makes no further         *)
(* attempt, whatever the shape of the body.                                *)
(* The Age Screener retries a 200 whose JSON body is not an object.        *)
(***************************************************************************)
\* the payload is the body, but for the value of annotated_image_path
SamePayload(data, body) ==
    /\ data.json = body.json
    /\ DOMAIN data.obj = DOMAIN body.obj
    /\ \A k \in DOMAIN body.obj \ {"annotated_image_path"} :
           data.obj[k] = body.obj[k]

C7_SuccessOn200 ==
    \A i \in 1..Len(posts) :
        (Is200(posts[i]) /\ posts[i].outcome.body.json # "invalid") =>
            /\ i = Len(posts)
            /\ pc \notin {"forward", "sleep"}
            /\ pc # "get" =>
                   /\ Succeeded
                   /\ SamePayload(forward_result.data, posts[i].outcome.body)

(***************************************************************************)
(* C8.  At both forwarding call sites, when the Success payload references *)
(* an artifact hosted on the downstream service, the calling stage has     *)
(* fetched it and stored a local copy before it responds, and the          *)
(* reference it returns is a path the calling stage serves itself.         *)
(* The Gatekeeper passes the Age Screener's payload on without fetching    *)
(* anything.                                                               *)
(***************************************************************************)
\* the key under which the downstream service names its artifact
ArtifactKey == IF stage = "gate" THEN "annotated_image_url" ELSE "annotated_image_path"

\* the static mount of the calling stage that a relocated artifact is served from
LocalMount == IF stage = "gate" THEN "/annotated_face/" ELSE "/annotated/"

LocalDir == IF stage = "gate" THEN TEMP_OUTPUT_DIR ELSE AUTISM_ANNOTATED_DIR

References(body) ==
    /\ body.json = "object"
    /\ ArtifactKey \in DOMAIN body.obj
    /\ body.obj[ArtifactKey].t = "str"

ServedLocally(path) ==
    /\ startswith(path, LocalMount)
    /\ \E f \in LocalDir :
           /\ f.name = SubSeq(path, Len(LocalMount) + 1, Len(path))
           /\ f.size > 0

C8_RelocatedAtBothSites ==
    (pc \in {"finally", "done"} /\ Succeeded /\ References(received)) =>
        /\ gets # <<>>
        /\ References(forward_result.data)
        /\ ServedLocally(forward_result.data.obj[ArtifactKey].v)

(***************************************************************************)
(* C9.  If the relocation fails in the Age Screener (the GET answers a     *)
(* status other than 200, the GET raises or times out, the downloaded body *)
(* is empty, or the local write fails), the forward outcome is still       *)
(* Success, the payload keeps the path the Region Classifier sent, no      *)
(* further forwarding attempt is made and the request is answered 200.     *)
(***************************************************************************)
GetFailed(g) ==
    \/ g.outcome.kind # "response"
    \/ g.outcome.status_code # 200
    \/ g.outcome.content = ""
    \/ g.disk \in {"open_fails", "write_fails"}

C9_RelocationFailureIsNotFatal ==
    (stage = "age" /\ gets # <<>> /\ GetFailed(gets[1])) =>
        /\ Succeeded
        /\ forward_result.data = received
        /\ Len(gets) = 1
        /\ Is200(LastPost)
        /\ ~InEngine
        /\ pc \in {"finally", "done"} =>
               /\ resp.status_code = 200
               /\ resp.content.age_analysis_data.autism_prediction_data = received

\* the GET answered 404 and the request was answered
C9_Witness ==
    /\ stage = "age"
    /\ pc = "done"
    /\ gets # <<>>
    /\ gets[1].outcome.kind = "response"
    /\ gets[1].outcome.status_code = 404
    /\ resp.status_code = 200
    /\ received.obj["annotated_image_path"] = JStr("/annotated/annotated_r1.jpg")
    /\ resp.content.age_analysis_data.autism_prediction_data = received

(***************************************************************************)
(* C10.  For an image with a face in a minor bracket, when the Region      *)
(* Classifier answers 200 with a JSON object containing                    *)
(* annotated_image_path and the artifact GET answers 200 with a non-empty  *)
(* body, the Age Screener answers 200 with status child_autism_screened,   *)
(* embeds the downstream payload under autism_prediction_data, and its     *)
(* artifact directory holds one new file that did not exist before.        *)
(* As amended: ... provided the local write of the artifact succeeds.      *)
(***************************************************************************)
\* the relocated copies that were not in the directory when the request arrived
NewArtifacts == {f \in AUTISM_ANNOTATED_DIR : f \notin {OldArtifact} /\ f.size > 0}

C10_Scenario ==
    /\ stage = "age"
    /\ pc = "done"
    /\ posts # <<>>
    /\ detection.contains_kids
    /\ Is200(LastPost)
    /\ LastPost.outcome.body.json = "object"
    /\ "annotated_image_path" \in DOMAIN LastPost.outcome.body.obj
    /\ gets # <<>>
    /\ gets[1].outcome.kind = "response"
    /\ gets[1].outcome.status_code = 200
    /\ gets[1].outcome.content # ""

C10_Outcome ==
    /\ resp.status_code = 200
    /\ resp.content.age_analysis_data.status = "child_autism_screened"
    /\ SamePayload(resp.content.age_analysis_data.autism_prediction_data, received)
    /\ Cardinality(NewArtifacts) = 1
    /\ OldArtifact \in AUTISM_ANNOTATED_DIR

\* the claim as stated
C10_Original == C10_Scenario => C10_Outcome

C10_Amended == (C10_Scenario /\ gets[1].disk = "ok") => C10_Outcome

C10_Witness ==
    /\ C10_Scenario
    /\ gets[1].disk = "ok"
    /\ Cardinality(AUTISM_ANNOTATED_DIR) = 2
    /\ resp.content.age_analysis_data.autism_prediction_data.obj["annotated_image_path"]
           = JStr("/annotated/autism_annotated_u3.jpg")

(***************************************************************************)
(* C11.  When a forward succeeds, the payload the calling stage embeds in  *)
(* its 200 response (age_analysis_data at the Gatekeeper,                  *)
(* autism_prediction_data at the Age Screener) is the body the downstream  *)
(* service returned, key for key: no key is added or removed, and no value *)
(* differs, except that the Age Screener may have replaced the value of    *)
(* annotated_image_path.                                                   *)
(***************************************************************************)
Embedded ==
    IF stage = "gate" THEN resp.content.age_analysis_data
    ELSE resp.content.age_analysis_data.autism_prediction_data

Answered == pc \in {"finally", "done"} /\ resp # NoResponse

C11_PayloadPassedThrough ==
    (Answered /\ Succeeded) =>
        /\ resp.status_code = 200
        /\ Embedded.json = received.json
        /\ DOMAIN Embedded.obj = DOMAIN received.obj
        /\ \A k \in DOMAIN received.obj :
               Embedded.obj[k] # received.obj[k] =>
                   (stage = "age" /\ k = "annotated_image_path")

C11_Witness ==
    /\ Answered
    /\ Succeeded
    /\ stage = "age"
    /\ "annotated_image_path" \in DOMAIN received.obj
    /\ Embedded.obj["annotated_image_path"] # received.obj["annotated_image_path"]
    /\ \E k \in DOMAIN received.obj :
           k # "annotated_image_path" /\ Embedded.obj[k] = received.obj[k]

(***************************************************************************)
(* C12.  At every stage, once the request has completed, the temporary     *)
(* input file is absent from disk: on the success path, on a rejection     *)
(* and when an exception was raised.                                       *)
(***************************************************************************)
Completed == pc = "done"

\* the handler has resumed from "await file.read()", or refused the upload
\* before it
PastRead == pc \notin {"received", "read"}

TempFileWritten == temp_input_path # ""

TempFilePresent ==
    TempFileWritten /\ exists(TEMP_INPUT_DIR, temp_input_path)

C12_TempFileRemoved == Completed => ~TempFilePresent

(***************************************************************************)
(* C13.  At every stage, an upload whose content type does not start with  *)
(* image/ is answered with status 400 and no temporary input file is       *)
(* written for it.                                                         *)
(***************************************************************************)
ImageContentType == startswith(upload.content_type, "image/")

C13_NotAnImageIs400 ==
    (Completed /\ ~ImageContentType) =>
        /\ resp.status_code = 400
        /\ ~TempFileWritten
        /\ TEMP_INPUT_DIR = {}

(***************************************************************************)
(* C14.  At every stage, an upload that passes the content-type check but  *)
(* is empty or cannot be decoded as an image is answered with status 400,  *)
(* and nothing is detected, forwarded or written as an artifact for it.    *)
(***************************************************************************)
Undecodable == upload.content \in {"empty", "garbage"}

C14_UndecodableIs400 ==
    (Completed /\ ImageContentType /\ Undecodable) =>
        /\ resp.status_code = 400
        /\ detection = NoObj
        /\ posts = <<>>
        /\ TEMP_OUTPUT_DIR = {}

(***************************************************************************)
(* C15.  At every stage, when the processing of a validated upload raises  *)
(* an unexpected exception, the request is answered with status 500, the   *)
(* body of the answer carries the message of the exception, and the        *)
(* temporary input file is removed all the same.                           *)
(***************************************************************************)
BodyCarries(message) ==
    \E k \in DOMAIN resp.content :
        k \in {"detail", "message", "error"} /\ Contains(resp.content[k], message)

C15_ExceptionIs500WithMessage ==
    (Completed /\ upload.raises = "processing") =>
        /\ resp.status_code = 500
        /\ BodyCarries(ProcessingError_str)
        /\ ~TempFilePresent

(***************************************************************************)
(* C16.  When the detector of the Age Screener reports no face, the        *)
(* request is answered with status 200, age_analysis_data.status is        *)
(* no_faces_detected, has_faces is false, and no request is sent to the    *)
(* Region Classifier.                                                      *)
(***************************************************************************)
\* the upload reaches the detector of the Age Screener, which returns
Screened ==
    /\ stage = "age"
    /\ ImageContentType
    /\ upload.content = "image"
    /\ upload.raises = "none"

NothingForwarded == posts = <<>> /\ ~InEngine /\ ~Returned

C16_NoFaceIsAnswered200 ==
    (Screened /\ Len(upload.ages) = 0) =>
        /\ NothingForwarded
        /\ PastRead =>
               /\ resp.status_code = 200
               /\ resp.content.age_analysis_data.status = "no_faces_detected"
               /\ ~resp.content.age_analysis_data.age_check_summary.has_faces

C16_Witness ==
    /\ Screened
    /\ Len(upload.ages) = 0
    /\ Completed
    /\ resp.content.age_analysis_data.status = "no_faces_detected"

(***************************************************************************)
(* C17.  When every face the Age Screener detects is in one of the four    *)
(* oldest brackets, (25-32), (38-43), (48-53) or (60-100), contains_kids   *)
(* is false, the request is answered with status 200 and status            *)
(* adult_invalid, and no request is sent to the Region Classifier.         *)
(***************************************************************************)
OldestBrackets == {"(25-32)", "(38-43)", "(48-53)", "(60-100)"}

YoungestBrackets == {"(0-2)", "(4-6)", "(8-12)", "(15-20)"}

AdultsOnly ==
    /\ Screened
    /\ Len(upload.ages) > 0
    /\ \A i \in 1..Len(upload.ages) : upload.ages[i] \in OldestBrackets

C17_AdultsAreNotForwarded ==
    AdultsOnly =>
        /\ NothingForwarded
        /\ PastRead =>
               /\ resp.status_code = 200
               /\ resp.content.age_analysis_data.status = "adult_invalid"
               /\ ~resp.content.age_analysis_data.age_check_summary.contains_kids

C17_Witness ==
    /\ AdultsOnly
    /\ Completed
    /\ upload.ages \in {<<"(25-32)">>, <<"(38-43)">>, <<"(48-53)">>}
    /\ resp.content.age_analysis_data.status = "adult_invalid"

(***************************************************************************)
(* C18.  The Age Screener invokes its forwarding engine exactly once for a *)
(* request if, and only if, at least one detected face is in one of the    *)
(* four youngest brackets, (0-2), (4-6), (8-12) or (15-20); this holds for *)
(* images that mix minor and adult faces.                                  *)
(***************************************************************************)
MinorDetected ==
    /\ Screened
    /\ \E i \in 1..Len(upload.ages) : upload.ages[i] \in YoungestBrackets

EngineInvoked == InEngine \/ Returned \/ posts # <<>>

\* the POSTs made are the consecutive attempts of one call of the engine
OneInvocation == \A i \in 1..Len(posts) : posts[i].attempt = i

C18_ForwardedIffMinor ==
    (stage = "age" /\ PastRead) =>
        /\ EngineInvoked <=> MinorDetected
        /\ OneInvocation

C18_Witness ==
    /\ MinorDetected
    /\ \E i \in 1..Len(upload.ages) : upload.ages[i] \in OldestBrackets
    /\ upload.ages[1] \in OldestBrackets
    /\ Completed
    /\ Len(posts) > 1
    /\ Returned

(***************************************************************************)
(* C19.  The Gatekeeper checks for animals before it checks for a human    *)
(* face: whenever the object detector reports a box with an animal label   *)
(* and a confidence above 0.7, the request is rejected as animal_detected  *)
(* and no request is sent to the Age Screener, also when the image holds a *)
(* qualifying human face.                                                  *)
(***************************************************************************)
\* the upload reaches the detectors of the Gatekeeper
Filtered ==
    /\ stage = "gate"
    /\ ImageContentType
    /\ upload.content = "image"

AnimalSeen ==
    \E i \in 1..Len(upload.boxes) :
        /\ upload.boxes[i].name \in ANIMAL_CLASSES
        /\ upload.boxes[i].conf > 70

\* width / height strictly between 3/4 and 7/5
Qualifies(face) ==
    /\ face.width # 0
    /\ face.height # 0
    /\ 3 * face.height < 4 * face.width
    /\ 5 * face.width < 7 * face.height

QualifyingFace == \E i \in 1..Len(upload.faces) : Qualifies(upload.faces[i])

C19_AnimalCheckFirst ==
    (Filtered /\ AnimalSeen) =>
        /\ NothingForwarded
        /\ PastRead => resp.content.status = "animal_detected"

C19_Witness ==
    /\ Filtered
    /\ AnimalSeen
    /\ QualifyingFace
    /\ Completed
    /\ resp.content.status = "animal_detected"

(***************************************************************************)
(* C20.  An image passes the human-face check of the Gatekeeper if, and    *)
(* only if, at least one detected face has a non-zero width and height and *)
(* a width/height ratio strictly between 0.75 and 1.4; when no face passes *)
(* the request is rejected as no_human_face and no request is sent to the  *)
(* Age Screener.                                                           *)
(***************************************************************************)
\* the image went past the human-face check: it was annotated
PassedFaceCheck == detection # NoObj

\* the face check is reached and the face detector has reported
FaceChecked == Filtered /\ ~AnimalSeen /\ upload.raises = "none" /\ PastRead

LandmarkedQualifyingFace ==
    \E i \in 1..Len(upload.faces) :
        Qualifies(upload.faces[i]) /\ upload.faces[i].landmarks

Malformed == ~ImageContentType \/ Undecodable

NoSubject ==
    /\ ~Malformed
    /\ upload.raises = "none"
    /\ \/ stage = "age" /\ Len(upload.ages) = 0
       \/ stage = "region" /\ Len(upload.faces) = 0

Rejected ==
    \/ Filtered /\ upload.raises = "none" /\ (AnimalSeen \/ ~QualifyingFace)
    \/ AdultsOnly

C21_BusinessOutcomesAre200 ==
    Completed =>
        /\ (NoSubject \/ Rejected \/ Succeeded) => resp.status_code = 200
        /\ resp.status_code # 200 =>
               \/ Failed /\ resp.status_code \in {500, 503}
               \/ Malformed /\ resp.status_code = 400

(***************************************************************************)
(* C22.  When the forwarding engine returns Failed, the Gatekeeper answers *)
(* 503 and the Age Screener 500, and the body of the answer holds the      *)
(* stage's own detection summary (face_count and annotated_image_url at    *)
(* the Gatekeeper, age_check_summary at the Age Screener) next to the      *)
(* reason of the failure.                                                  *)
(***************************************************************************)
HasKeys(content, keys) == keys \subseteq DOMAIN content

C22_FailedKeepsDetectionSummary ==
    (Answered /\ Failed) =>
        /\ HasKeys(resp.content, {"error"})
        /\ resp.content.error = forward_result.error
        /\ resp.content.error # ""
        /\ IF stage = "gate"
           THEN /\ resp.status_code = 503
                /\ HasKeys(resp.content, {"face_count", "annotated_image_url"})
                /\ resp.content.face_count = detection.face_count
                /\ resp.content.annotated_image_url =
                       "/annotated_face/" \o detection.annotated_filename
           ELSE /\ resp.status_code = 500
                /\ HasKeys(resp.content, {"age_check_summary"})
                /\ resp.content.age_check_summary = detection

C22_Witness ==
    /\ Completed
    /\ Failed
    /\ stage = "age"
    /\ Len(posts) = 3
    /\ resp.content.age_check_summary.adults_count > 0

(***************************************************************************)
(* C23.  When the face detector of the Region Classifier finds no face,    *)
(* /predict/ is answered with status 400.                                  *)
(***************************************************************************)
Inferred ==
    /\ stage = "region"
    /\ upload.content = "image"
    /\ upload.raises = "none"

C23_NoFaceIs400 ==
    (Completed /\ Inferred /\ Len(upload.faces) = 0) => resp.status_code = 400

(***************************************************************************)
(* C24.  For every image in which the Region Classifier detects n >= 1     *)
(* faces the request succeeds, and the results sequence holds, for each    *)
(* face in turn, the three region entries eyes, nose, lips followed by one *)
(* final_decision entry with the output of the fusion function for that    *)
(* face.                                                                   *)
(***************************************************************************)
RECURSIVE ExpectedResults(_)
ExpectedResults(faces) ==
    IF faces = <<>> THEN <<>>
    ELSE LET face == Head(faces)
         IN <<[region |-> "eyes", label |-> face.eyes.label,
               confidence |-> face.eyes.confidence],
              [region |-> "nose", label |-> face.nose.label,
               confidence |-> face.nose.confidence],
              [region |-> "lips", label |-> face.lips.label,
               confidence |-> face.lips.confidence],
              [final_decision |-> face.decision]>>
            \o ExpectedResults(Tail(faces))

C24_ResultsPerFace ==
    (Completed /\ Inferred /\ Len(upload.faces) >= 1) =>
        /\ resp.status_code = 200
        /\ resp.content.status = "success"
        /\ resp.content.results = ExpectedResults(upload.faces)

(***************************************************************************)
(* C25.  Where a stage crops a region of the image (the padded face crop   *)
(* of the Age Screener, the eyes, nose and lips crops of the Region        *)
(* Classifier), the coordinates are clamped to the image before the crop   *)
(* is taken and a crop of zero area is skipped: a box that reaches beyond  *)
(* the image or has no area raises no error and does not fail the request. *)
(***************************************************************************)
\* the interval lo..hi is empty or not inside 0..n
NeedsCare(lo, hi, n) == lo < 0 \/ hi > n \/ hi <= lo

FaceCropNeedsCare ==
    /\ Screened
    /\ \E i \in 1..Len(upload.faces) :
           /\ upload.faces[i].confidence > 70
           /\ \/ NeedsCare(upload.faces[i].x1 - 20, upload.faces[i].x2 + 20, ImageSize)
              \/ NeedsCare(upload.faces[i].y1 - 20, upload.faces[i].y2 + 20, ImageSize)

RegionCropNeedsCare ==
    /\ Inferred
    /\ Len(upload.faces) = 1
    /\ \E box \in {upload.faces[1].eyes.box, upload.faces[1].nose.box,
                    upload.faces[1].lips.box} :
           \/ NeedsCare(box.x_min, box.x_max, ImageSize)
           \/ NeedsCare(box.y_min, box.y_max, ImageSize)

\* the request failed with an error raised while the image was processed
ProcessingFailed == resp.status_code = 500 /\ HasKeys(resp.content, {"detail"})

C25_CropsClampedOrSkipped ==
    (Completed /\ (FaceCropNeedsCare \/ RegionCropNeedsCare)) => ~ProcessingFailed

(***************************************************************************)
(* C26.  Every error response of a processing endpoint (validation error,  *)
(* business rejection, downstream unavailable, internal error) has a JSON  *)
(* body that holds a machine-readable status tag and a human-readable      *)
(* message.                                                                *)
(***************************************************************************)
ErrorResponse == resp.status_code >= 400

\* the human-readable text is under "message", or under "reason" in the
\* rejections of the Gatekeeper
C26_ErrorsCarryStatusAndMessage ==
    (Completed /\ ErrorResponse) =>
        /\ HasKeys(resp.content, {"status"})
        /\ HasKeys(resp.content, {"message"}) \/ HasKeys(resp.content, {"reason"})

(***************************************************************************)
(* C27.  For any interleaving of concurrent requests, also when two        *)
(* uploads carry the same client filename, no two requests write,          *)
(* overwrite or delete the same temp input path or the same artifact path: *)
(* every such path contains an identifier generated for that request       *)
(* alone, and a request removes only its own temp file.                    *)
(***************************************************************************)
\* operations on temp input files and artifacts (not on the log file)
PathOps == {f \in fileops : f.dir # "BASE_DIR"}

C27_NoSharedPaths ==
    /\ \A f, g \in PathOps :
           f.request # g.request => f.path # g.path
    /\ \A f \in PathOps :
           \E n \in requests[f.request].ids : Contains(f.path, uuid4_hex(n))
    /\ \A q, r \in DOMAIN requests :
           q # r => requests[q].ids \cap requests[r].ids = {}
    /\ \A f \in PathOps :
           f.op = "remove" => f.path = requests[f.request].temp_input_path

C27_Witness ==
    /\ stage = "age"
    /\ \A r \in DOMAIN requests :
           requests[r].pc = "done" /\ requests[r].filename = "a.jpg"
    /\ Cardinality({f \in PathOps : f.op = "remove"}) = NumRequests
    /\ Cardinality({f \in PathOps : f.dir = "AUTISM_ANNOTATED_DIR"}) = NumRequests

(***************************************************************************)
(* C28.  No handler writes to a file path that another request writes to   *)
(* as well: the files written while requests are served are the temp       *)
(* inputs and the artifacts of single requests, so no file is mutable      *)
(* state shared by requests.                                               *)
(***************************************************************************)
C28_NoFileWrittenByTwoRequests ==
    \A f, g \in fileops :
        (f.op = "write" /\ g.op = "write" /\ f.request # g.request) =>
            <<f.dir, f.path>> # <<g.dir, g.path>>

(***************************************************************************)
(* C29.  Whenever a stage responds for an accepted detection result (the   *)
(* Gatekeeper after both gates passed, whether forwarding succeeded or     *)
(* failed; the Age Screener when a minor was found), the response holds    *)
(* exactly one reference to the stage's own annotated image, and a file of *)
(* that name exists in the directory the stage serves at that time.        *)
(***************************************************************************)
\* the static mount of the stage's own annotated images (TEMP_OUTPUT_DIR)
OwnMount == IF stage = "gate" THEN "/annotated_face/" ELSE "/annotated_age/"

\* the references to an annotated image of the stage itself in the
\* response, one for each place of the body that holds one: the 200 answer
\* of the Age Screener holds the URL at the top level and in its summary
OwnReferences ==
    IF stage = "gate" THEN <<resp.content.annotated_image_url>>
    ELSE IF Succeeded
    THEN <<resp.content.annotated_image_url,
           resp.content.age_analysis_data.age_check_summary.annotated_image_url>>
    ELSE <<resp.content.age_check_summary.annotated_image_url>>

AcceptedAndAnswered ==
    /\ stage \in {"gate", "age"}
    /\ Answered
    /\ Returned

C29_OneResolvableArtifact ==
    AcceptedAndAnswered =>
        /\ Len(OwnReferences) = 1
        /\ \A i \in DOMAIN OwnReferences :
               /\ startswith(OwnReferences[i], OwnMount)
               /\ exists(TEMP_OUTPUT_DIR,
                         SubSeq(OwnReferences[i], Len(OwnMount) + 1,
                                Len(OwnReferences[i])))

(***************************************************************************)
(* C30.  Within one request the steps follow each other in the order gate  *)
(* decision, forwarding attempts, artifact relocation, response, deletion  *)
(* of the temp file: no POST is made before the gate has accepted, the     *)
(* artifact is fetched only after a 200 of the target, the response is     *)
(* built after the engine has returned, and the temp input file exists     *)
(* during every forwarding attempt, also after a backoff wait, and is      *)
(* deleted only after the response is determined.                          *)
(***************************************************************************)
GateAccepted ==
    /\ detection # NoObj
    /\ stage = "age" => detection.contains_kids

StepsInOrder ==
    /\ posts' # posts =>
           /\ GateAccepted
           /\ TempFilePresent
           /\ gets = <<>>
           /\ resp = NoResponse
    /\ gets' # gets =>
           /\ posts # <<>>
           /\ Is200(LastPost)
           /\ TempFilePresent
           /\ resp = NoResponse
    /\ (resp' # resp /\ posts # <<>>) =>
           /\ Returned
           /\ ~InEngine
    /\ (TempFilePresent /\ ~TempFilePresent') =>
           /\ resp # NoResponse
           /\ ~InEngine

C30_StepsInOrder == [][StepsInOrder]_vars

C30_Witness ==
    /\ Completed
    /\ Len(posts) = 3
    /\ Len(sleeps) = 2
    /\ gets # <<>>
    /\ ~TempFilePresent

(***************************************************************************)
(* C31: on attempt k (1, 2, 3) of either engine the request timeout is     *)
(* 60 + 30 * (k - 1) seconds (60, 90, 120) and the connect timeout is 30   *)
(* seconds; the timeout of a later attempt is never below that of an       *)
(* earlier one.                                                            *)
(***************************************************************************)
C31_TimeoutsGrow ==
    /\ \A i \in DOMAIN posts :
           /\ posts[i].attempt = i
           /\ posts[i].timeout.timeout = 60 + 30 * (i - 1)
           /\ posts[i].timeout.read = posts[i].timeout.timeout
           /\ posts[i].timeout.connect = 30
           /\ posts[i].timeout.timeout \in {60, 90, 120}
    /\ \A i, j \in DOMAIN posts :
           i < j => posts[i].timeout.timeout <= posts[j].timeout.timeout

C31_Witness ==
    /\ Len(posts) = 3
    /\ posts[1].timeout.timeout = 60
    /\ posts[2].timeout.timeout = 90
    /\ posts[3].timeout.timeout = 120
    /\ posts[3].timeout.connect = 30

(***************************************************************************)
(* C34: the forwarding engine never waits after its final attempt: one     *)
(* call makes at most two backoff waits and every wait is followed by      *)
(* another attempt.  The longest total backoff of one call is 50 seconds   *)
(* (20 after a timeout of the first attempt, 30 after a 500 of the         *)
(* second), not the 45 seconds of two waits after a 500.                   *)
(***************************************************************************)
RECURSIVE Sum(_)
Sum(s) == IF s = <<>> THEN 0 ELSE s[1] + Sum(Tail(s))

TotalBackoff == Sum(sleeps)

NoWaitAfterFinalAttempt ==
    /\ Len(sleeps) <= MaxAttempts - 1
    /\ pc = "sleep" =>
           /\ attempt + 1 < MaxAttempts
           /\ Len(posts) = Len(sleeps)
    /\ (pc = "forward" /\ sleeps # <<>>) => attempt < MaxAttempts
    /\ (posts # <<>> /\ pc \notin {"sleep", "forward"}) =>
           Len(sleeps) < Len(posts)
    /\ \A i \in DOMAIN posts : posts[i].waited = SubSeq(sleeps, 1, i - 1)

C34_Original == NoWaitAfterFinalAttempt /\ TotalBackoff <= 45

C34_Amended == NoWaitAfterFinalAttempt /\ TotalBackoff <= 50

C34_Witness ==
    /\ Returned
    /\ Len(posts) = MaxAttempts
    /\ sleeps = <<20, 30>>
    /\ TotalBackoff = 50

(***************************************************************************)
(* C35: every request a stage forwards downstream is sent in the field     *)
(* named file with content type image/jpeg (and filename image.jpg),       *)
(* whatever the content type and filename of the original upload; the      *)
(* content-type check of the Age Screener therefore never rejects a        *)
(* forwarded request.  What is sent is the saved upload.                   *)
(***************************************************************************)
C35_ForwardedAsJpeg ==
    \A i \in DOMAIN posts :
        /\ posts[i].files.field = "file"
        /\ posts[i].files.content_type = "image/jpeg"
        /\ posts[i].files.filename = "image.jpg"
        /\ posts[i].files.path = temp_input_path
        /\ startswith(posts[i].files.content_type, "image/")

C35_Witness ==
    /\ upload.content_type = "image/png"
    /\ upload.filename = "b.png"
    /\ Len(posts) = 2
    /\ posts[2].files.content_type = "image/jpeg"
    /\ posts[2].files.filename = "image.jpg"

(***************************************************************************)
(* C36: in the Gatekeeper a failure of the animal detector is treated as   *)
(* "no animal" (the request goes on to the human-face check) and a failure *)
(* of the face detector as "no human face" (the request is rejected with   *)
(* no_human_face and nothing is forwarded); neither failure is answered    *)
(* with a 500.                                                             *)
(***************************************************************************)
AnimalDetectorFailed == Filtered /\ upload.raises = "animal_detector"

FaceDetectorFailed == Filtered /\ upload.raises = "face_detector"

RejectedAs(status) ==
    /\ resp.status_code = 400
    /\ "status" \in DOMAIN resp.content
    /\ resp.content.status = status

C36_DetectorFailuresAreNoDetections ==
    /\ (AnimalDetectorFailed /\ PastRead) =>
           /\ PassedFaceCheck <=> QualifyingFace
           /\ ~QualifyingFace => RejectedAs("no_human_face") /\ NothingForwarded
           /\ ~RejectedAs("animal_detected")
           /\ resp.status_code # 500
    /\ (FaceDetectorFailed /\ ~AnimalSeen /\ PastRead) =>
           /\ RejectedAs("no_human_face")
           /\ NothingForwarded
           /\ ~PassedFaceCheck
           /\ resp.status_code # 500

C36_Witness ==
    /\ AnimalDetectorFailed
    /\ QualifyingFace
    /\ posts # <<>>
    /\ Completed
    /\ resp.status_code = 200

(***************************************************************************)
(* C37: the Age Screener replaces annotated_image_path only after a local  *)
(* file has been written and verified to exist with a non-zero size:       *)
(* whenever the path it returns differs from the path the Region           *)
(* Classifier sent, the returned path is /annotated/<fresh name> and that  *)
(* file exists, non-empty, in the autism artifact directory of the Age     *)
(* Screener.                                                               *)
(***************************************************************************)
SentPath == received.obj["annotated_image_path"]

ReturnedPath == forward_result.data.obj["annotated_image_path"]

PathReplaced ==
    /\ stage = "age"
    /\ Succeeded
    /\ received.json = "object"
    /\ "annotated_image_path" \in DOMAIN received.obj
    /\ ReturnedPath # SentPath

FreshName(name) ==
    /\ name # OldArtifact.name
    /\ \E n \in 1..uuids : name = "autism_annotated_" \o uuid4_hex(n) \o ".jpg"

C37_ReplacedOnlyByVerifiedCopy ==
    PathReplaced =>
        /\ ReturnedPath.t = "str"
        /\ startswith(ReturnedPath.v, "/annotated/")
        /\ FreshName(SubSeq(ReturnedPath.v, Len("/annotated/") + 1, Len(ReturnedPath.v)))
        /\ \E f \in AUTISM_ANNOTATED_DIR :
               /\ "/annotated/" \o f.name = ReturnedPath.v
               /\ f.size > 0
        /\ gets # <<>>
        /\ ~GetFailed(gets[1])

C37_Witness ==
    /\ PathReplaced
    /\ Answered
    /\ ~startswith(SentPath.v, "/annotated/")
    /\ ReturnedPath = JStr("/annotated/autism_annotated_u3.jpg")
    /\ [name |-> "autism_annotated_u3.jpg", size |-> 1] \in AUTISM_ANNOTATED_DIR

(***************************************************************************)
(* C38: in every age_check_summary kids_count + adults_count equals the    *)
(* number of annotations, contains_kids is true exactly when kids_count is *)
(* greater than zero, and has_faces is false exactly when the list of      *)
(* annotations is empty, in which case both counts are zero.               *)
(***************************************************************************)
\* the summaries carried by the response of the Age Screener
AgeCheckSummaries ==
    IF stage # "age" \/ resp = NoResponse THEN {}
    ELSE IF "age_check_summary" \in DOMAIN resp.content
    THEN {resp.content.age_check_summary}
    ELSE IF "age_analysis_data" \in DOMAIN resp.content
    THEN {resp.content.age_analysis_data.age_check_summary}
    ELSE {}

SummaryConsistent(summary) ==
    /\ summary.kids_count + summary.adults_count = Len(summary.annotations)
    /\ summary.kids_count >= 0
    /\ summary.adults_count >= 0
    /\ summary.contains_kids <=> summary.kids_count > 0
    /\ ~summary.has_faces <=> summary.annotations = <<>>
    /\ ~summary.has_faces => (summary.kids_count = 0 /\ summary.adults_count = 0)

C38_SummaryCountsAgree ==
    /\ (stage = "age" /\ detection # NoObj) => SummaryConsistent(detection)
    /\ \A summary \in AgeCheckSummaries :
           /\ summary = detection
           /\ SummaryConsistent(summary)

C38_Witness ==
    /\ stage = "age"
    /\ Completed
    /\ AgeCheckSummaries # {}
    /\ detection.kids_count = 1
    /\ detection.adults_count = 1
    /\ Len(detection.annotations) = 2

(***************************************************************************)
(* C39: a Gatekeeper request that ends in a validation error or a business *)
(* rejection (an upload that is not an image, an empty or undecodable      *)
(* upload, animal_detected, no_human_face) leaves the annotated-output     *)
(* directory of the Gatekeeper unchanged and sends no request downstream;  *)
(* an annotated artifact is written only after both gates have passed.     *)
(***************************************************************************)
\* the request ended in a validation error or a business rejection
GateRefused ==
    /\ stage = "gate"
    /\ PastRead
    /\ \/ Malformed
       \/ AnimalSeen /\ upload.raises # "animal_detector"
       \/ ~LandmarkedQualifyingFace
       \/ upload.raises = "face_detector"

BothGatesPassed ==
    /\ Filtered
    /\ ~animal_filter(upload)
    /\ human_face_filter(upload)
    /\ ~AnimalSeen
    /\ LandmarkedQualifyingFace

C39_RejectionWritesAndSendsNothing ==
    /\ GateRefused =>
           /\ resp.status_code = 400
           /\ TEMP_OUTPUT_DIR = {}
           /\ posts = <<>>
           /\ NothingForwarded
    /\ (stage = "gate" /\ resp.status_code = 400) =>
           /\ TEMP_OUTPUT_DIR = {}
           /\ posts = <<>>
    /\ (stage = "gate" /\ TEMP_OUTPUT_DIR # {}) => BothGatesPassed
    /\ (stage = "gate" /\ posts # <<>>) =>
           /\ BothGatesPassed
           /\ TEMP_OUTPUT_DIR # {} <=> upload.written

C39_Witness ==
    /\ GateRefused
    /\ Completed
    /\ ~Malformed
    /\ QualifyingFace
    /\ RejectedAs("animal_detected")
    /\ TEMP_OUTPUT_DIR = {}
    /\ TEMP_INPUT_DIR = {}

(***************************************************************************)
(* C32: for one client request to the Gatekeeper the Region Classifier     *)
(* receives at most 9 POSTs, 3 attempts of the Gatekeeper times 3 attempts *)
(* of the Age Screener: the Age Screener answers an exhausted downstream   *)
(* with HTTP 500, which the engine of the Gatekeeper treats as a 500 to    *)
(* retry after 15 s x attempt number.  The 9 POSTs are made when the       *)
(* Region Classifier answers 500 every time.                               *)
(***************************************************************************)
Handlers == downstream.handlers

\* the POSTs the handlers have sent to the Region Classifier, the ones in
\* flight included
RECURSIVE region_posts(_)
region_posts(handlers) ==
    IF handlers = <<>> THEN 0
    ELSE Len(handlers[1].posts)
         + (IF handlers[1].pc = "await" THEN 1 ELSE 0)
         + region_posts(Tail(handlers))

RegionPosts == region_posts(Handlers)

HandlerAnswered(h) == h.pc \in {"finally", "done"}

\* the handler made every attempt and none was answered 200
Exhausted(h) ==
    /\ HandlerAnswered(h)
    /\ Len(h.posts) = MaxAttempts
    /\ ~Is200(h.posts[MaxAttempts])

C32_AtMostNinePosts ==
    /\ RegionPosts <= MaxAttempts * MaxAttempts
    /\ Len(Handlers) <= MaxAttempts
    /\ \A k \in DOMAIN Handlers :
           /\ Len(Handlers[k].posts) <= MaxAttempts
           /\ Exhausted(Handlers[k]) =>
                  /\ Handlers[k].resp.status_code = 500
                  /\ Handlers[k].resp.content.status = "autism_api_failed"
    /\ \A i \in DOMAIN posts :
           (Is500(posts[i]) /\ i < MaxAttempts) =>
               /\ Len(sleeps) >= i
               /\ sleeps[i] = 15 * i
               /\ ~Returned \/ Len(posts) > i

C32_Witness ==
    /\ RegionPosts = 9
    /\ \A k \in DOMAIN Handlers : \A i \in DOMAIN Handlers[k].posts :
           Is500(Handlers[k].posts[i])
    /\ Len(posts) = MaxAttempts
    /\ \A i \in DOMAIN posts : Is500(posts[i])
    /\ Completed
    /\ resp.status_code = 503

(***************************************************************************)
(* C33: when the Region Classifier finds no face in a forwarded image its  *)
(* error reaches the Age Screener as HTTP 500, so the Age Screener sends   *)
(* the same image at all 3 attempts (waiting 15 s and 30 s) and then       *)
(* answers autism_api_failed with status 500; the no-face outcome is never *)
(* answered to the caller of the Age Screener as a business result.        *)
(***************************************************************************)
NoFaceAtRegion == downstream.region = "up" /\ downstream.faces = <<>>

NoFaceDetail == JStr(HTTPException_str(400, "No face detected in the image"))

C33_NoFaceIsRetriedAndFails ==
    NoFaceAtRegion =>
        \A k \in DOMAIN Handlers :
            LET h == Handlers[k]
            IN /\ \A i \in DOMAIN h.posts :
                      /\ Is500(h.posts[i])
                      /\ h.posts[i].outcome.body.obj["detail"] = NoFaceDetail
                      /\ h.posts[i].files = h.posts[1].files
               /\ (HandlerAnswered(h) /\ h.detection # NoObj
                      /\ h.detection.contains_kids) =>
                      /\ Len(h.posts) = MaxAttempts
                      /\ h.sleeps = <<15, 30>>
                      /\ h.resp.status_code = 500
                      /\ h.resp.content.status = "autism_api_failed"
               /\ (HandlerAnswered(h) /\ h.resp.status_code = 200) => h.posts = <<>>

C33_Witness ==
    /\ NoFaceAtRegion
    /\ Handlers # <<>>
    /\ Handlers[1].pc = "done"
    /\ Len(Handlers[1].posts) = MaxAttempts
    /\ Handlers[1].sleeps = <<15, 30>>
    /\ Handlers[1].resp.content.status = "autism_api_failed"
    /\ posts # <<>>
    /\ Is500(posts[1])
====
